---------------------------- MODULE Spec2Model ----------------------------
(***************************************************************************)
(* Model of the EDoS detection pipeline:                                   *)
(*   - the Durable-Log Consumer (backend/app/services/redis_consumer.py):  *)
(*     process_message and redis_consumer_loop over the Redis stream       *)
(*     ml:predictions, its consumer group, the dedup markers, the retry    *)
(*     counters, the dead-letter stream and the Alert table;               *)
(*   - the Adaptive Batch Buffer and Batch Processor                       *)
(*     (backend/ml/beast_mode_api.py): predict_buffered_cicflow,           *)
(*     process_buffer_batch, background_buffer_monitor, manual flush.      *)
(*                                                                         *)
(* Granularity of the consumer: one action per external write (a Redis or  *)
(* database call that changes state), together with the reads and the      *)
(* local computation that precede it.  The process may crash between any   *)
(* two such actions.  Granularity of the buffer: one action per run of     *)
(* code between two suspension points of the asyncio event loop (the only  *)
(* awaits that suspend are asyncio.sleep and the sends to live clients).   *)
(***************************************************************************)
EXTENDS Integers, Sequences, FiniteSets, TLC

(***************************************************************************)
(* Bounds of the model                                                     *)
(***************************************************************************)
\* longest stream ml:predictions the producers build
MaxEntries == 2
\* most Alert rows kept per message identifier
MaxAlerts == 3

\* most flows the ingestion endpoint accepts in a run
MaxFlows == 4
\* last instant of the clock
MaxTime == 3
\* most entries on ml:predictions for the group alerts_processor
MaxBatchEntries == 2
\* size of the batches whose attack rate is assessed, and how many of them
RatedBatchSize == 100
MaxRatedBatches == 2
\* most websockets that ever subscribe to one broadcaster
MaxSubscribers == 3
\* most flows in a batch handed to the inference engine
MaxBatchLen == 2

(***************************************************************************)
(* Program constants of redis_consumer.py                                  *)
(***************************************************************************)
MAX_RETRIES == 5
READ_COUNT == 100

(***************************************************************************)
(* Sizes of the buffer of beast_mode_api.py.  The code has BUFFER_SIZE =   *)
(* 500, MAX_WAIT_TIME = 5.0 s and MAX_BUFFER_CAPACITY = 2000; the model    *)
(* takes small values in the same order, BUFFER_SIZE < MAX_BUFFER_CAPACITY.*)
(***************************************************************************)
BUFFER_SIZE == 2
MAX_WAIT_TIME == 2
MAX_BUFFER_CAPACITY == 3

(***************************************************************************)
(* Threat thresholds of beast_mode_api.py, in percent                      *)
(***************************************************************************)
THREAT_CRITICAL_PCT == 75
THREAT_HIGH_PCT == 50
THREAT_MEDIUM_PCT == 25
THREAT_LOW_PCT == 10

VARIABLES
    \* ---- Redis / relational store as seen by the consumer ----
    stream,          \* ml:predictions: sequence of payloads, entry id = index
    group_exists,    \* consumer group ml_consumers exists
    last_delivered,  \* the group's last-delivered id
    pending,         \* the group's pending entries list (delivered, unacknowledged)
    acked,           \* entries an XACK has removed from the pending entries list
    processed,       \* message ids with a marker ml:processed:<message_id>
    retry,           \* ml:retry:<entry_id> counters
    dlq,             \* entry ids with a record in ml:predictions:dlq
    alerts,          \* rows of security_alerts per message id
    infra,           \* "ok": Redis and the store never fail; "flaky": any call may raise
    \* ---- the consumer task ----
    cpc,             \* position of the consumer
    mode,            \* "sweep": startup claim loop, "loop": main read loop
    work,            \* entries of the current claim/read batch still to handle
    cur,             \* entry being handled (0: none)
    was_set,         \* process_message local
    lookup,          \* outcome of the resource lookup of this call
    created,         \* Alert rows committed by this call of process_message
    \* ---- beast_mode_api: buffer, statistics, tasks ----
    flow_buffer,              \* deque of buffered flows, oldest first
    total_flows_received,     \* buffer_stats[...]
    total_batches_processed,
    total_attacks_detected,
    last_batch_attack_rate,   \* whole percent (the thresholds are whole numbers)
    current_threat_level,
    last_flush_time,
    now,                      \* time.time()
    expected_feature_set,     \* app.state.expected_feature_set is set
    connected_live_clients,   \* websockets of /ws/live
    inflight,                 \* calls of process_buffer_batch suspended in their broadcast:
                              \* the caller, the id of the batch's first flow, its size
    monitor_pc,               \* background_buffer_monitor: "sleeping" or "broadcasting"
    monitor_wake,             \* end of the monitor's asyncio.sleep
    response,                 \* what the last finished request or monitor round returned
    publish_tasks,            \* tasks running publish_batch_results, created and not finished
    published,                \* entries publish_batch_results has appended to ml:predictions
    publish_returned,         \* how the last finished publish_batch_results went and returned
    flows_scored,             \* flows of the batches scored so far (len(converted_flows))
    flows_evicted,            \* flows dropped from the head of a full buffer so far
    flows_dropped,            \* flows of scored batches that conversion left out
    \* ---- ml_processor: MLPredictionProcessor ----
    ml_stream,                \* ml:predictions as the group alerts_processor sees it
    ml_group_exists,
    ml_last_delivered,        \* last-delivered id of the group alerts_processor
    ml_pending,               \* its pending entries list
    ml_acked,
    security_alerts,          \* rows inserted by create_alert_in_db
    running,                  \* self.running
    messages,                 \* entries of the last read still to be handled
    \* ---- websocket broadcasters ----
    broadcaster,              \* which of the three broadcast functions serves the run
    active_connections,       \* the connected subscribers, in iteration order
    broken,                   \* connected subscribers whose peer is gone: a send raises
    bc_pc,                    \* "idle", or "sending": a broadcast is in its send loop
    bc_index,                 \* how many elements the send loop's iterator has passed
    bc_iterated,              \* the copy list(connected_live_clients) being iterated
    to_remove,                \* subscribers whose send raised in this broadcast
    received,                 \* subscribers the message of this broadcast was sent to
    bc_present,               \* connected since this broadcast began
    \* ---- beast_mode_inference: BeastModeInferenceEngine ----
    flows_data,               \* the batch handed to predict_batch_ultra_fast
    nan_policy,               \* what the loaded estimators do with a NaN cell
    engine_pc,                \* "ready", or "done": the batch and its flows are scored
    X,                        \* the matrix _preprocess_batch_vectorized returned
    batch_result,             \* what predict_batch_ultra_fast(flows_data) returned
    single_results,           \* predict_single_ultra_fast of each flow of the batch
    \* ---- a scored flow on its way to an Alert row ----
    alert_prediction,         \* the prediction the scorer built for the flow, or NoPrediction
    alert_severity            \* the severity process_message computed for it, or "none"

consumerVars == <<stream, group_exists, last_delivered, pending, acked, processed, retry,
                  dlq, alerts, infra, cpc, mode, work, cur, was_set, lookup, created>>

bufferVars == <<flow_buffer, total_flows_received, total_batches_processed,
                total_attacks_detected, last_batch_attack_rate, current_threat_level,
                last_flush_time, now, expected_feature_set, connected_live_clients,
                inflight, monitor_pc, monitor_wake, response, publish_tasks,
                published, publish_returned, flows_scored, flows_evicted, flows_dropped>>

processorVars == <<ml_stream, ml_group_exists, ml_last_delivered, ml_pending,
                   ml_acked, security_alerts, running, messages>>

broadcastVars == <<broadcaster, active_connections, broken, bc_pc, bc_index,
                   bc_iterated, to_remove, received, bc_present>>

engineVars == <<flows_data, nan_policy, engine_pc, X, batch_result, single_results>>

alertVars == <<alert_prediction, alert_severity>>

vars == <<consumerVars, bufferVars, processorVars, broadcastVars, engineVars, alertVars>>

(***************************************************************************)
(* Stream payloads.  kind:                                                 *)
(*   "nopayload" the entry has no field (payload is None)                  *)
(*   "badjson"   json.loads raises                                         *)
(*   "nonobject" valid JSON that is not an object (obj.get raises)         *)
(*   "missing"   an object without message_id, client_id, resource_id or   *)
(*               prediction                                                *)
(*   "batch"     a batch-result message as publish_batch_results writes    *)
(*               it: message_id, timestamp, client_id, resource_id,        *)
(*               batch_results, source                                     *)
(*   "valid"     a single-prediction message                               *)
(***************************************************************************)
MsgIds == {"m1", "m2"}

InvalidKinds == {"nopayload", "badjson", "missing", "batch"}

ValidPayloads ==
    [kind : {"valid"}, mid : MsgIds, attack : BOOLEAN, known : BOOLEAN]

OtherPayloads ==
    [kind : InvalidKinds \cup {"nonobject"}, mid : {"m1"}, attack : {FALSE}, known : {FALSE}]

Payloads == ValidPayloads \cup OtherPayloads

EntryIds == 1..MaxEntries

Min(a, b) == IF a <= b THEN a ELSE b

\* the entries of a set of ids, in id order (Redis returns entries in id order)
RECURSIVE InIdOrder(_)
InIdOrder(S) ==
    IF S = {} THEN <<>>
    ELSE LET m == CHOOSE x \in S : \A y \in S : x <= y
         IN  <<m>> \o InIdOrder(S \ {m})

\* outcomes of a call to Redis or to the store: TRUE it returns, FALSE it raises
CallOutcomes == IF infra = "flaky" THEN BOOLEAN ELSE {TRUE}

ResetLocals ==
    /\ was_set' = FALSE
    /\ lookup' = "none"
    /\ created' = 0

\* the consumer's state before the process is first started
ConsumerDown ==
    /\ stream = <<>>
    /\ group_exists = FALSE
    /\ last_delivered = 0
    /\ pending = {}
    /\ acked = {}
    /\ processed = {}
    /\ retry = [e \in EntryIds |-> 0]
    /\ dlq = {}
    /\ alerts = [m \in MsgIds |-> 0]
    /\ cpc = "down"
    /\ mode = "sweep"
    /\ work = <<>>
    /\ cur = 0
    /\ was_set = FALSE
    /\ lookup = "none"
    /\ created = 0

\* module state of beast_mode_api after import and startup: empty buffer,
\* zeroed statistics, the monitor in its first sleep
NotPublished == [failed |-> "none", value |-> "none"]

NoResponse == [caller |-> "none", result |-> "none", flows_processed |-> 0]

ApiStart ==
    /\ flow_buffer = <<>>
    /\ total_flows_received = 0
    /\ total_batches_processed = 0
    /\ total_attacks_detected = 0
    /\ last_batch_attack_rate = 0
    /\ current_threat_level = "LOW"
    /\ last_flush_time = 0
    /\ now = 0
    /\ connected_live_clients = {}
    /\ inflight = {}
    /\ monitor_pc = "sleeping"
    /\ monitor_wake = MAX_WAIT_TIME
    /\ response = NoResponse
    /\ publish_tasks = 0
    /\ published = 0
    /\ publish_returned = NotPublished
    /\ flows_scored = 0
    /\ flows_evicted = 0
    /\ flows_dropped = 0

\* MLPredictionProcessor after construction, before start()
ProcessorStopped ==
    /\ ml_stream = <<>>
    /\ ml_group_exists = FALSE
    /\ ml_last_delivered = 0
    /\ ml_pending = {}
    /\ ml_acked = {}
    /\ security_alerts = {}
    /\ running = FALSE
    /\ messages = <<>>

\* the engine before its first call
NoResult == [raised |-> FALSE, predictions |-> <<>>]

\* no flow has been scored for an alert
NoPrediction == [is_attack |-> FALSE, attack_probability |-> 0,
                 benign_probability |-> 0, confidence |-> 0]

AlertIdle ==
    /\ alert_prediction = NoPrediction
    /\ alert_severity = "none"

EngineIdle ==
    /\ flows_data = <<>>
    /\ nan_policy = "raises"
    /\ engine_pc = "ready"
    /\ X = <<>>
    /\ batch_result = NoResult
    /\ single_results = <<>>

\* the broadcasters before any websocket has connected
NoSubscribers ==
    /\ active_connections = <<>>
    /\ broken = {}
    /\ bc_pc = "idle"
    /\ bc_index = 0
    /\ bc_iterated = <<>>
    /\ to_remove = <<>>
    /\ received = {}
    /\ bc_present = {}

ConsumerInit ==
    /\ ConsumerDown
    /\ NoSubscribers
    /\ EngineIdle
    /\ AlertIdle
    /\ broadcaster = "broadcast_to_live_clients"
    /\ infra \in {"ok", "flaky"}
    /\ ApiStart
    /\ expected_feature_set = TRUE
    /\ ProcessorStopped

(***************************************************************************)
(* Producers: XADD of one entry to ml:predictions                          *)
(***************************************************************************)
Publish(p) ==
    /\ Len(stream) < MaxEntries
    /\ stream' = Append(stream, p)
    /\ UNCHANGED <<group_exists, last_delivered, pending, acked, processed, retry, dlq,
                   alerts, infra, cpc, mode, work, cur, was_set, lookup, created>>
    /\ UNCHANGED <<bufferVars, processorVars, broadcastVars, engineVars, alertVars>>

(***************************************************************************)
(* redis_consumer_loop                                                     *)
(***************************************************************************)
\* ensure_group (XGROUP CREATE ... id="$" MKSTREAM) and the XAUTOCLAIM of the
\* startup sweep (min_idle_time = 0, start 0-0: every pending entry)
Start ==
    /\ cpc = "down"
    /\ \E g_ok \in CallOutcomes, c_ok \in CallOutcomes :
          /\ group_exists' = (group_exists \/ g_ok)
          /\ last_delivered' = IF ~group_exists /\ g_ok THEN Len(stream)
                               ELSE last_delivered
          /\ work' = IF c_ok /\ group_exists' THEN InIdOrder(pending) ELSE <<>>
    /\ mode' = "sweep"
    /\ cpc' = "iter"
    /\ cur' = 0
    /\ ResetLocals
    /\ UNCHANGED <<stream, pending, acked, processed, retry, dlq, alerts, infra>>
    /\ UNCHANGED <<bufferVars, processorVars, broadcastVars, engineVars, alertVars>>

\* next entry of the claimed or read batch: process_message is entered
NextEntry ==
    /\ cpc = "iter"
    /\ work # <<>>
    /\ cur' = Head(work)
    /\ work' = Tail(work)
    /\ cpc' = "pm"
    /\ ResetLocals
    /\ UNCHANGED <<stream, group_exists, last_delivered, pending, acked, processed, retry,
                   dlq, alerts, infra, mode>>
    /\ UNCHANGED <<bufferVars, processorVars, broadcastVars, engineVars, alertVars>>

\* XREADGROUP ... streams={ml:predictions: ">"}: only never-delivered entries
XReadGroup ==
    /\ cpc = "iter"
    /\ work = <<>>
    /\ mode' = "loop"
    /\ \E ok \in CallOutcomes :
          LET last == Min(Len(stream), last_delivered + READ_COUNT)
              new  == IF ok /\ group_exists THEN (last_delivered + 1)..last ELSE {}
          IN  /\ pending' = pending \cup new
              /\ last_delivered' = IF new = {} THEN last_delivered ELSE last
              /\ work' = InIdOrder(new)
    /\ UNCHANGED <<stream, group_exists, acked, processed, retry, dlq, alerts, infra,
                   cpc, cur, was_set, lookup, created>>
    /\ UNCHANGED <<bufferVars, processorVars, broadcastVars, engineVars, alertVars>>

(***************************************************************************)
(* process_message(redis, entry_id, msg)                                   *)
(***************************************************************************)
Entry == stream[cur]

\* XACK of the entry: it leaves the pending entries list
Ack(ok) == IF ok THEN pending \ {cur} ELSE pending

Acked(ok) == IF ok /\ cur \in pending THEN acked \cup {cur} ELSE acked

\* lines 57-63, 65-71, 79-84: no payload, undecodable payload or a missing
\* required field: XADD to the dead-letter stream
PM_Invalid ==
    /\ cpc = "pm"
    /\ Entry.kind \in InvalidKinds
    /\ \E ok \in CallOutcomes :
          /\ dlq' = IF ok THEN dlq \cup {cur} ELSE dlq
          /\ cpc' = IF ok THEN "pm_dlq_ack" ELSE "raised"
    /\ UNCHANGED <<stream, group_exists, last_delivered, pending, acked, processed, retry,
                   alerts, infra, mode, work, cur, was_set, lookup, created>>
    /\ UNCHANGED <<bufferVars, processorVars, broadcastVars, engineVars, alertVars>>

\* lines 73-77: json.loads returned a list, a string, a number or null, and
\* obj.get raises AttributeError outside every try block
PM_NonObject ==
    /\ cpc = "pm"
    /\ Entry.kind = "nonobject"
    /\ cpc' = "raised"
    /\ UNCHANGED <<stream, group_exists, last_delivered, pending, acked, processed, retry,
                   dlq, alerts, infra, mode, work, cur, was_set, lookup, created>>
    /\ UNCHANGED <<bufferVars, processorVars, broadcastVars, engineVars, alertVars>>

\* lines 86-91: SET ml:processed:<message_id> 1 NX EX; was_set = True when the
\* call raises
SetNx(ok, m) ==
    IF ~ok THEN [set |-> TRUE, keys |-> processed]
    ELSE IF m \in processed THEN [set |-> FALSE, keys |-> processed]
    ELSE [set |-> TRUE, keys |-> processed \cup {m}]

PM_Idempotency ==
    /\ cpc = "pm"
    /\ Entry.kind = "valid"
    /\ \E ok \in CallOutcomes :
          LET r == SetNx(ok, Entry.mid)
          IN  /\ was_set' = r.set
              /\ processed' = r.keys
              /\ cpc' = IF r.set THEN "pm_resolve" ELSE "pm_dup_ack"
    /\ UNCHANGED <<stream, group_exists, last_delivered, pending, acked, retry, dlq,
                   alerts, infra, mode, work, cur, lookup, created>>
    /\ UNCHANGED <<bufferVars, processorVars, broadcastVars, engineVars, alertVars>>

\* lines 93-96: the marker existed: XACK and return
PM_AlreadyProcessed ==
    /\ cpc = "pm_dup_ack"
    /\ \E ok \in CallOutcomes :
          /\ pending' = Ack(ok)
          /\ acked' = Acked(ok)
          /\ cpc' = IF ok THEN "returned" ELSE "raised"
    /\ UNCHANGED <<stream, group_exists, last_delivered, processed, retry, dlq,
                   alerts, infra, mode, work, cur, was_set, lookup, created>>
    /\ UNCHANGED <<bufferVars, processorVars, broadcastVars, engineVars, alertVars>>

\* lines 104-136: ORM lookup, raw SQL lookup when it raises, user_id = None
\* when that raises too
LookupOutcomes(p) ==
    (IF p.known THEN {"found"} ELSE {"absent"})
        \cup (IF infra = "flaky" THEN {"raised"} ELSE {})

\* lines 138-143: no user_id: XACK and drop
PM_UnknownResource ==
    /\ cpc = "pm_resolve"
    /\ \E lk \in LookupOutcomes(Entry) \ {"found"}, ok \in CallOutcomes :
          /\ lookup' = lk
          /\ pending' = Ack(ok)
          /\ acked' = Acked(ok)
          /\ cpc' = IF ok THEN "returned" ELSE "raised"
    /\ UNCHANGED <<stream, group_exists, last_delivered, processed, retry, dlq,
                   alerts, infra, mode, work, cur, was_set, created>>
    /\ UNCHANGED <<bufferVars, processorVars, broadcastVars, engineVars, alertVars>>

\* lines 146, 332-336: resolved and not an attack: XACK, a failure is logged
PM_Benign ==
    /\ cpc = "pm_resolve"
    /\ "found" \in LookupOutcomes(Entry)
    /\ ~Entry.attack
    /\ \E ok \in CallOutcomes :
          /\ pending' = Ack(ok)
          /\ acked' = Acked(ok)
    /\ lookup' = "found"
    /\ cpc' = "returned"
    /\ UNCHANGED <<stream, group_exists, last_delivered, processed, retry, dlq,
                   alerts, infra, mode, work, cur, was_set, created>>
    /\ UNCHANGED <<bufferVars, processorVars, broadcastVars, engineVars, alertVars>>

\* lines 146-235: ORM insert.  "committed": db.commit and db.refresh return;
\* "before": the insert raises before the commit; "after": db.refresh or the
\* close of the session raises after the commit.  Either raise leads to the
\* raw SQL insert.
OrmOutcomes ==
    {"committed"} \cup (IF infra = "flaky" THEN {"before", "after"} ELSE {})

PM_OrmInsert ==
    /\ cpc = "pm_resolve"
    /\ "found" \in LookupOutcomes(Entry)
    /\ Entry.attack
    /\ alerts[Entry.mid] < MaxAlerts
    /\ \E o \in OrmOutcomes :
          LET n == IF o = "before" THEN 0 ELSE 1
          IN  /\ alerts' = [alerts EXCEPT ![Entry.mid] = @ + n]
              /\ created' = created + n
              /\ cpc' = IF o = "committed" THEN "pm_final_ack" ELSE "pm_raw"
    /\ lookup' = "found"
    /\ UNCHANGED <<stream, group_exists, last_delivered, pending, acked, processed, retry,
                   dlq, infra, mode, work, cur, was_set>>
    /\ UNCHANGED <<bufferVars, processorVars, broadcastVars, engineVars, alertVars>>

\* lines 236-330: raw SQL insert; when it raises, XADD to the dead-letter
\* stream
PM_RawInsert ==
    /\ cpc = "pm_raw"
    /\ alerts[Entry.mid] < MaxAlerts
    /\ \E ok \in CallOutcomes, dlq_ok \in CallOutcomes :
          /\ alerts' = IF ok THEN [alerts EXCEPT ![Entry.mid] = @ + 1] ELSE alerts
          /\ created' = IF ok THEN created + 1 ELSE created
          /\ dlq' = IF ~ok /\ dlq_ok THEN dlq \cup {cur} ELSE dlq
          /\ cpc' = IF ok THEN "pm_final_ack"
                    ELSE IF dlq_ok THEN "pm_dlq_ack" ELSE "raised"
    /\ UNCHANGED <<stream, group_exists, last_delivered, pending, acked, processed, retry,
                   infra, mode, work, cur, was_set, lookup>>
    /\ UNCHANGED <<bufferVars, processorVars, broadcastVars, engineVars, alertVars>>

\* lines 62, 70, 83, 329: XACK after the dead-letter record
PM_DlqAck ==
    /\ cpc = "pm_dlq_ack"
    /\ \E ok \in CallOutcomes :
          /\ pending' = Ack(ok)
          /\ acked' = Acked(ok)
          /\ cpc' = IF ok THEN "returned" ELSE "raised"
    /\ UNCHANGED <<stream, group_exists, last_delivered, processed, retry, dlq,
                   alerts, infra, mode, work, cur, was_set, lookup, created>>
    /\ UNCHANGED <<bufferVars, processorVars, broadcastVars, engineVars, alertVars>>

\* lines 332-336: XACK of the processed entry; a failure is only logged
PM_FinalAck ==
    /\ cpc = "pm_final_ack"
    /\ \E ok \in CallOutcomes :
          /\ pending' = Ack(ok)
          /\ acked' = Acked(ok)
    /\ cpc' = "returned"
    /\ UNCHANGED <<stream, group_exists, last_delivered, processed, retry, dlq,
                   alerts, infra, mode, work, cur, was_set, lookup, created>>
    /\ UNCHANGED <<bufferVars, processorVars, broadcastVars, engineVars, alertVars>>

(***************************************************************************)
(* redis_consumer_loop: what follows a call of process_message             *)
(***************************************************************************)
\* line 365: the sweep acknowledges again; when the XACK raises the except of
\* line 366 ends the sweep
SweepAck ==
    /\ cpc = "returned"
    /\ mode = "sweep"
    /\ \E ok \in CallOutcomes :
          /\ pending' = Ack(ok)
          /\ acked' = Acked(ok)
          /\ work' = IF ok THEN work ELSE <<>>
    /\ cpc' = "iter"
    /\ UNCHANGED <<stream, group_exists, last_delivered, processed, retry, dlq,
                   alerts, infra, mode, cur, was_set, lookup, created>>
    /\ UNCHANGED <<bufferVars, processorVars, broadcastVars, engineVars, alertVars>>

\* lines 366-368: process_message raised in the sweep: "except Exception: pass"
\* ends the sweep, the entries not yet handled stay pending
SweepAbort ==
    /\ cpc = "raised"
    /\ mode = "sweep"
    /\ work' = <<>>
    /\ cpc' = "iter"
    /\ UNCHANGED <<stream, group_exists, last_delivered, pending, acked, processed, retry,
                   dlq, alerts, infra, mode, cur, was_set, lookup, created>>
    /\ UNCHANGED <<bufferVars, processorVars, broadcastVars, engineVars, alertVars>>

\* lines 412-414: process_message returned in the main loop
LoopContinue ==
    /\ cpc = "returned"
    /\ mode = "loop"
    /\ cpc' = "iter"
    /\ UNCHANGED <<stream, group_exists, last_delivered, pending, acked, processed, retry,
                   dlq, alerts, infra, mode, work, cur, was_set, lookup, created>>
    /\ UNCHANGED <<bufferVars, processorVars, broadcastVars, engineVars, alertVars>>

\* lines 387-411: process_message raised in the main loop: INCR of the retry
\* counter, and above MAX_RETRIES the dead-letter record and the XACK.  A
\* raise of INCR, XADD or XACK reaches the except of line 416, which leaves
\* the rest of the read batch.
DeadLetterDue(retries) == retries > MAX_RETRIES

LoopRetry ==
    /\ cpc = "raised"
    /\ mode = "loop"
    /\ \E incr_ok \in CallOutcomes, xadd_ok \in CallOutcomes, xack_ok \in CallOutcomes :
          LET retries == retry[cur] + 1
              due     == incr_ok /\ DeadLetterDue(retries)
          IN  /\ retry' = IF incr_ok THEN [retry EXCEPT ![cur] = retries] ELSE retry
              /\ dlq' = IF due /\ xadd_ok THEN dlq \cup {cur} ELSE dlq
              /\ pending' = IF due /\ xadd_ok THEN Ack(xack_ok) ELSE pending
              /\ acked' = IF due /\ xadd_ok THEN Acked(xack_ok) ELSE acked
              /\ work' = IF ~incr_ok \/ (due /\ ~(xadd_ok /\ xack_ok))
                         THEN <<>> ELSE work
    /\ cpc' = "iter"
    /\ UNCHANGED <<stream, group_exists, last_delivered, processed, alerts, infra,
                   mode, cur, was_set, lookup, created>>
    /\ UNCHANGED <<bufferVars, processorVars, broadcastVars, engineVars, alertVars>>

\* the consumer process dies (or its task is cancelled) and is started again
\* later under a new consumer name
Crash ==
    /\ cpc # "down"
    /\ cpc' = "down"
    /\ work' = <<>>
    /\ cur' = 0
    /\ ResetLocals
    /\ UNCHANGED <<stream, group_exists, last_delivered, pending, acked, processed, retry,
                   dlq, alerts, infra, mode>>
    /\ UNCHANGED <<bufferVars, processorVars, broadcastVars, engineVars, alertVars>>

ConsumerStep ==
    \/ Start
    \/ NextEntry
    \/ XReadGroup
    \/ PM_Invalid
    \/ PM_NonObject
    \/ PM_Idempotency
    \/ PM_AlreadyProcessed
    \/ PM_UnknownResource
    \/ PM_Benign
    \/ PM_OrmInsert
    \/ PM_RawInsert
    \/ PM_DlqAck
    \/ PM_FinalAck
    \/ SweepAck
    \/ SweepAbort
    \/ LoopContinue
    \/ LoopRetry

ConsumerNext ==
    \/ \E p \in Payloads : Publish(p)
    \/ ConsumerStep
    \/ Crash

ConsumerSpec == ConsumerInit /\ [][ConsumerNext]_vars

\* the consumer task is scheduled whenever it can take a step
ConsumerFairSpec == ConsumerSpec /\ WF_vars(ConsumerStep)

(***************************************************************************)
(* beast_mode_api: the flow buffer and the batch processor                 *)
(*                                                                         *)
(* All coroutines run on one event loop.  A step below is the code between *)
(* two points where a coroutine really suspends: asyncio.sleep in the      *)
(* monitor and ws.send_json in broadcast_to_live_clients.  buffer_lock is  *)
(* never held across such a point, and predict_batch_ultra_fast has no     *)
(* await in its body, so extraction, conversion, scoring and the           *)
(* statistics update of one batch form one step.                           *)
(*                                                                         *)
(* A submitted flow is one of                                              *)
(*   "benign", "attack"  all features, numeric values, with metadata       *)
(*   "malformed"         all features, a value the scaler cannot take      *)
(*   "bare"              all features, no metadata field                   *)
(*   "partial"           some expected feature is missing                  *)
(***************************************************************************)
FlowKinds == {"benign", "attack", "malformed", "bare", "partial"}

\* the flows submitted in a run: without an expected feature set every flow
\* with metadata fails in the scorer alike, so one kind of them is submitted
SubmittedKinds ==
    IF expected_feature_set THEN {"benign", "attack", "malformed", "partial"}
    ELSE {"partial", "bare"}

Clients == {"ws1"}

\* a variant of the validation that finds no feature missing
HasFeatures_Always(f) == TRUE

HasFeatures(f) == f.kind # "partial"

HasMeta(f) == f.kind # "bare"

WellFormed(f) == f.kind # "malformed"

\* a variant that flags every flow
IsAttack_Any(f) == TRUE

IsAttack(f) == f.kind = "attack"

RECURSIVE Reverse(_)
Reverse(q) == IF q = <<>> THEN <<>> ELSE Append(Reverse(Tail(q)), Head(q))

\* for flow in q: d.appendleft(flow)
RECURSIVE AppendLeftAll(_, _)
AppendLeftAll(q, d) ==
    IF q = <<>> THEN d ELSE AppendLeftAll(Tail(q), <<Head(q)>> \o d)

\* a variant that puts the batch back without reversing it first
Reinsert_Unreversed(batch, d) == AppendLeftAll(batch, d)

\* a variant that does not put a failed batch back
Reinsert_Dropping(batch, d) == d

\* the failure handler of process_buffer_batch: flows_to_process.reverse(),
\* then appendleft of each flow
Reinsert(batch, d) == AppendLeftAll(Reverse(batch), d)

\* a variant whose tiers start above their thresholds
assess_threat_level_Strict(attack_rate) ==
    IF attack_rate > THREAT_CRITICAL_PCT THEN "CRITICAL"
    ELSE IF attack_rate > THREAT_HIGH_PCT THEN "HIGH"
    ELSE IF attack_rate > THREAT_MEDIUM_PCT THEN "MEDIUM"
    ELSE IF attack_rate > THREAT_LOW_PCT THEN "LOW"
    ELSE "NORMAL"

assess_threat_level(attack_rate) ==
    IF attack_rate >= THREAT_CRITICAL_PCT THEN "CRITICAL"
    ELSE IF attack_rate >= THREAT_HIGH_PCT THEN "HIGH"
    ELSE IF attack_rate >= THREAT_MEDIUM_PCT THEN "MEDIUM"
    ELSE IF attack_rate >= THREAT_LOW_PCT THEN "LOW"
    ELSE "NORMAL"

\* variants of the lock-held block that the properties below must tell from
\* it: no eviction, refusing the new flow instead of dropping the oldest, and
\* queueing the new flow at the head
BufferAppend_NoEviction(buf, f) == Append(buf, f)

BufferAppend_AtHead(buf, f) ==
    <<f>> \o (IF Len(buf) >= MAX_BUFFER_CAPACITY THEN Tail(buf) ELSE buf)

BufferAppend_DropNewest(buf, f) ==
    IF Len(buf) >= MAX_BUFFER_CAPACITY THEN buf ELSE Append(buf, f)

\* the lock-held block of predict_buffered_cicflow: drop the oldest flow of a
\* full buffer, then append
BufferAppend(buf, f) ==
    Append(IF Len(buf) >= MAX_BUFFER_CAPACITY THEN Tail(buf) ELSE buf, f)

\* a variant that flushes one submission late
ShouldProcess_Late(size, elapsed) ==
    \/ size > BUFFER_SIZE
    \/ (size > 0 /\ elapsed >= MAX_WAIT_TIME)

\* the flush test of predict_buffered_cicflow
ShouldProcess(size, elapsed) ==
    \/ size >= BUFFER_SIZE
    \/ (size > 0 /\ elapsed >= MAX_WAIT_TIME)

\* a variant that does not wait for the timeout
TimeoutDue_NoWait(size, elapsed) == size > 0

\* the flush test of background_buffer_monitor
TimeoutDue(size, elapsed) == size > 0 /\ elapsed >= MAX_WAIT_TIME

\* a variant that reads the oldest flows and leaves them in the buffer
Extract_Peek(buf) ==
    [batch |-> SubSeq(buf, 1, Min(Len(buf), BUFFER_SIZE)), rest |-> buf]

\* the lock-held block of process_buffer_batch: popleft into flows_to_process
\* while the buffer has a flow and the batch fewer than BUFFER_SIZE
Extract(buf) ==
    [batch |-> SubSeq(buf, 1, Min(Len(buf), BUFFER_SIZE)),
     rest |-> SubSeq(buf, Min(Len(buf), BUFFER_SIZE) + 1, Len(buf))]

\* the flow the broadcast loop reads the metadata of prediction i from, shifted
\* by one place
OrigFlow_Shifted(flows_to_process, i) ==
    IF i + 1 <= Len(flows_to_process) THEN flows_to_process[i + 1]
    ELSE [id |-> 0, kind |-> "bare"]

\* orig_flow of the broadcast loop: flows_to_process[i], or {} past its end
OrigFlow(flows_to_process, i) ==
    IF i <= Len(flows_to_process) THEN flows_to_process[i]
    ELSE [id |-> 0, kind |-> "bare"]

\* the messages the broadcast loop hands to broadcast_to_live_clients, one per
\* prediction: predictions[i] is the score of converted_flows[i] (of is the
\* flow it was computed from), flow is the flow whose src_ip, dst_ip,
\* dst_port and timestamp go into flow_meta
LiveMessages(flows_to_process, converted_flows) ==
    [i \in 1..Len(converted_flows) |->
        [prediction |-> [of |-> converted_flows[i].id],
         flow |-> OrigFlow(flows_to_process, i).id]]

\* process_buffer_batch on a non-empty buffer, up to its first suspension:
\* the batch taken, what conversion keeps, the outcome and the buffer left
ProcessBatch(buf) ==
    LET flows_to_process == Extract(buf).batch
        rest == Extract(buf).rest
        \* with no expected feature set every flow is converted a second time,
        \* which keeps its metadata fields only
        converted_flows == IF expected_feature_set THEN flows_to_process
                           ELSE SelectSeq(flows_to_process, HasMeta)
        \* the engine has feature names exactly when the feature set is
        \* configured; the scaler raises on a value that is not a number
        raises == \/ ~expected_feature_set
                  \/ \E i \in 1..Len(converted_flows) : ~WellFormed(converted_flows[i])
        outcome == IF converted_flows = <<>> THEN "no_valid"
                   ELSE IF raises THEN "raised"
                   ELSE "scored"
        attack_predictions ==
            Cardinality({i \in 1..Len(converted_flows) : IsAttack(converted_flows[i])})
    IN  [outcome |-> outcome,
         batch |-> flows_to_process,
         flows_processed |-> IF outcome = "scored" THEN Len(converted_flows) ELSE 0,
         messages |-> IF outcome = "scored"
                      THEN LiveMessages(flows_to_process, converted_flows)
                      ELSE <<>>,
         attacks |-> IF outcome = "scored" THEN attack_predictions ELSE 0,
         attack_rate |-> IF outcome = "scored"
                         THEN (attack_predictions * 100) \div Len(converted_flows)
                         ELSE 0,
         buffer |-> IF outcome = "scored" THEN rest
                    ELSE Reinsert(flows_to_process, rest)]

\* what the caller of process_buffer_batch gets: result is "scored" for a
\* batch result with statistics, "no_valid" or "empty" for the two short
\* returns, "raised" for an exception; flows_processed is its total_flows
ResponseOf(caller, r) ==
    [caller |-> caller, result |-> r.outcome, flows_processed |-> r.flows_processed]

\* whether the broadcast of a batch result suspends the call: never without a
\* live websocket client; with one, ws.send_json may or may not yield
SuspendOutcomes(r) ==
    IF r.outcome = "scored" /\ connected_live_clients # {} THEN BOOLEAN ELSE {FALSE}

\* asyncio.create_task(publish_batch_results(...)): one task per scored batch
CreatedTasks(r) == IF r.outcome = "scored" THEN 1 ELSE 0

\* process_buffer_batch called by caller on the non-empty buffer buf, up to
\* its return or to its suspension in broadcast_to_live_clients, which comes
\* after the statistics update
FlushFrom(caller, buf) ==
    LET r == ProcessBatch(buf)
    IN  /\ flow_buffer' = r.buffer
        /\ last_flush_time' = now
        /\ flows_scored' = flows_scored + r.flows_processed
        /\ flows_dropped' = flows_dropped + (IF r.outcome = "scored"
                                             THEN Len(r.batch) - r.flows_processed
                                             ELSE 0)
        /\ IF r.outcome = "scored"
           THEN /\ total_batches_processed' = total_batches_processed + 1
                /\ total_attacks_detected' = total_attacks_detected + r.attacks
                /\ last_batch_attack_rate' = r.attack_rate
                /\ current_threat_level' = assess_threat_level(r.attack_rate)
           ELSE UNCHANGED <<total_batches_processed, total_attacks_detected,
                            last_batch_attack_rate, current_threat_level>>
        /\ \E suspends \in SuspendOutcomes(r) :
              IF suspends
              THEN /\ inflight' = inflight \cup {[caller |-> caller,
                                                   first |-> r.batch[1].id,
                                                   flows_processed |-> r.flows_processed,
                                                   messages |-> r.messages]}
                   /\ response' = response
                   /\ publish_tasks' = publish_tasks
              ELSE /\ inflight' = inflight
                   /\ response' = ResponseOf(caller, r)
                   /\ publish_tasks' = publish_tasks + CreatedTasks(r)

\* POST /predict/buffered refused with 422: a feature of the expected set is missing
SubmitRejected(k) ==
    /\ expected_feature_set
    /\ ~HasFeatures([id |-> 0, kind |-> k])
    /\ response' = [NoResponse EXCEPT !.caller = "submit", !.result = "rejected"]
    /\ UNCHANGED <<flow_buffer, total_flows_received, total_batches_processed,
                   total_attacks_detected, last_batch_attack_rate, current_threat_level,
                   last_flush_time, now, expected_feature_set, connected_live_clients,
                   inflight, monitor_pc, monitor_wake, publish_tasks, published,
                   publish_returned, flows_scored, flows_evicted, flows_dropped>>
    /\ UNCHANGED <<consumerVars, processorVars, broadcastVars, engineVars, alertVars>>

\* POST /predict/buffered with an accepted flow
Submit(k) ==
    /\ total_flows_received < MaxFlows
    /\ expected_feature_set => HasFeatures([id |-> 0, kind |-> k])
    /\ LET converted == [id |-> total_flows_received + 1, kind |-> k]
           buf == BufferAppend(flow_buffer, converted)
           current_buffer_size == Len(buf)
       IN  /\ total_flows_received' = total_flows_received + 1
           /\ flows_evicted' = flows_evicted +
                  (IF Len(flow_buffer) >= MAX_BUFFER_CAPACITY THEN 1 ELSE 0)
           /\ IF ShouldProcess(current_buffer_size, now - last_flush_time)
              THEN FlushFrom("submit", buf)
              ELSE /\ flow_buffer' = buf
                   /\ response' = [NoResponse EXCEPT !.caller = "submit",
                                                     !.result = "buffered"]
                   /\ UNCHANGED <<total_batches_processed, total_attacks_detected,
                                  last_batch_attack_rate, current_threat_level,
                                  last_flush_time, inflight, publish_tasks,
                           flows_scored, flows_dropped>>
    /\ UNCHANGED <<now, expected_feature_set, connected_live_clients, monitor_pc,
                   monitor_wake, published, publish_returned>>
    /\ UNCHANGED <<consumerVars, processorVars, broadcastVars, engineVars, alertVars>>

\* POST /flush-buffer
ManualFlush ==
    /\ IF flow_buffer = <<>>
       THEN /\ response' = [NoResponse EXCEPT !.caller = "flush", !.result = "empty"]
            /\ UNCHANGED <<flow_buffer, total_batches_processed, total_attacks_detected,
                           last_batch_attack_rate, current_threat_level,
                           last_flush_time, inflight, publish_tasks,
                           flows_scored, flows_dropped>>
       ELSE FlushFrom("flush", flow_buffer)
    /\ UNCHANGED <<total_flows_received, now, expected_feature_set,
                   connected_live_clients, monitor_pc, monitor_wake, published,
                   publish_returned, flows_evicted>>
    /\ UNCHANGED <<consumerVars, processorVars, broadcastVars, engineVars, alertVars>>

\* one round of background_buffer_monitor after its sleep has ended
MonitorWake ==
    /\ monitor_pc = "sleeping"
    /\ now >= monitor_wake
    /\ IF TimeoutDue(Len(flow_buffer), now - last_flush_time)
       THEN /\ FlushFrom("monitor", flow_buffer)
            /\ monitor_pc' = IF inflight' # inflight THEN "broadcasting" ELSE "sleeping"
            /\ monitor_wake' = IF inflight' # inflight THEN monitor_wake
                               ELSE now + MAX_WAIT_TIME
       ELSE /\ response' = [NoResponse EXCEPT !.caller = "monitor", !.result = "idle"]
            /\ monitor_pc' = "sleeping"
            /\ monitor_wake' = now + MAX_WAIT_TIME
            /\ UNCHANGED <<flow_buffer, total_batches_processed, total_attacks_detected,
                           last_batch_attack_rate, current_threat_level,
                           last_flush_time, inflight, publish_tasks,
                           flows_scored, flows_dropped>>
    /\ UNCHANGED <<total_flows_received, now, expected_feature_set,
                   connected_live_clients, published, publish_returned,
                   flows_evicted>>
    /\ UNCHANGED <<consumerVars, processorVars, broadcastVars, engineVars, alertVars>>

\* a suspended call of process_buffer_batch finishes its broadcast, hands the
\* batch to the publisher and returns to its caller
BroadcastDone(b) ==
    /\ b \in inflight
    /\ inflight' = inflight \ {b}
    /\ response' = [caller |-> b.caller, result |-> "scored",
                    flows_processed |-> b.flows_processed]
    /\ IF b.caller = "monitor"
       THEN /\ monitor_pc' = "sleeping"
            /\ monitor_wake' = now + MAX_WAIT_TIME
       ELSE UNCHANGED <<monitor_pc, monitor_wake>>
    /\ publish_tasks' = publish_tasks + 1
    /\ UNCHANGED <<flow_buffer, total_flows_received, total_batches_processed,
                   total_attacks_detected, last_batch_attack_rate, current_threat_level,
                   last_flush_time, now, expected_feature_set, connected_live_clients,
                   published, publish_returned, flows_scored, flows_evicted, flows_dropped>>
    /\ UNCHANGED <<consumerVars, processorVars, broadcastVars, engineVars, alertVars>>

\* a variant that reports the entry whenever XADD went through
PublishReturn_IgnoresClose(failed) == IF failed = "xadd" THEN "None" ELSE "entry_id"

\* what publish_batch_results returns: the entry id when every call in its
\* try block went through, None from its handler otherwise
PublishReturn(failed) == IF failed = "none" THEN "entry_id" ELSE "None"

\* how a call of publish_batch_results can go: no call raises; json.dumps or
\* XADD raises; XADD appends and redis.close() raises
PublishFailures == IF infra = "ok" THEN {"none"} ELSE {"none", "xadd", "close"}

\* a task created for publish_batch_results runs to its end.  The step reads
\* and writes the publisher's state only, so it is left out of BufferNext,
\* whose behaviours it would repeat for every number of unfinished tasks.
PublishRun ==
    /\ publish_tasks > 0
    /\ publish_tasks' = publish_tasks - 1
    /\ \E failed \in PublishFailures :
          /\ published' = IF failed = "xadd" THEN published ELSE published + 1
          /\ publish_returned' = [failed |-> failed, value |-> PublishReturn(failed)]
    /\ UNCHANGED <<flow_buffer, total_flows_received, total_batches_processed,
                   total_attacks_detected, last_batch_attack_rate, current_threat_level,
                   last_flush_time, now, expected_feature_set, connected_live_clients,
                   inflight, monitor_pc, monitor_wake, response, flows_scored, flows_evicted, flows_dropped>>
    /\ UNCHANGED <<consumerVars, processorVars, broadcastVars, engineVars, alertVars>>

\* /ws/live: a dashboard connects
ClientConnect(c) ==
    /\ c \notin connected_live_clients
    /\ connected_live_clients' = connected_live_clients \cup {c}
    /\ UNCHANGED <<flow_buffer, total_flows_received, total_batches_processed,
                   total_attacks_detected, last_batch_attack_rate, current_threat_level,
                   last_flush_time, now, expected_feature_set, inflight, monitor_pc,
                   monitor_wake, response, publish_tasks, published, publish_returned,
                   flows_scored, flows_evicted, flows_dropped>>
    /\ UNCHANGED <<consumerVars, processorVars, broadcastVars, engineVars, alertVars>>

\* /ws/live: a dashboard disconnects
ClientDisconnect(c) ==
    /\ c \in connected_live_clients
    /\ connected_live_clients' = connected_live_clients \ {c}
    /\ UNCHANGED <<flow_buffer, total_flows_received, total_batches_processed,
                   total_attacks_detected, last_batch_attack_rate, current_threat_level,
                   last_flush_time, now, expected_feature_set, inflight, monitor_pc,
                   monitor_wake, response, publish_tasks, published, publish_returned,
                   flows_scored, flows_evicted, flows_dropped>>
    /\ UNCHANGED <<consumerVars, processorVars, broadcastVars, engineVars, alertVars>>

\* time.time() advances
Tick ==
    /\ now < MaxTime
    /\ now' = now + 1
    /\ UNCHANGED <<flow_buffer, total_flows_received, total_batches_processed,
                   total_attacks_detected, last_batch_attack_rate, current_threat_level,
                   last_flush_time, expected_feature_set, connected_live_clients,
                   inflight, monitor_pc, monitor_wake, response, publish_tasks,
                   published, publish_returned, flows_scored, flows_evicted, flows_dropped>>
    /\ UNCHANGED <<consumerVars, processorVars, broadcastVars, engineVars, alertVars>>

BufferInit ==
    /\ ApiStart
    /\ NoSubscribers
    /\ EngineIdle
    /\ AlertIdle
    /\ broadcaster = "broadcast_to_live_clients"
    /\ expected_feature_set \in BOOLEAN
    /\ ConsumerDown
    /\ infra = "ok"
    /\ ProcessorStopped

BufferNext ==
    \/ \E k \in SubmittedKinds : SubmitRejected(k)
    \/ \E k \in SubmittedKinds : Submit(k)
    \/ ManualFlush
    \/ MonitorWake
    \/ \E b \in inflight : BroadcastDone(b)
    \/ \E c \in Clients : ClientConnect(c)
    \/ \E c \in Clients : ClientDisconnect(c)
    \/ Tick

BufferSpec == BufferInit /\ [][BufferNext]_vars

\* The program reads the clock in two comparisons only: now - last_flush_time
\* with MAX_WAIT_TIME, and the end of the monitor's sleep with now.  At the end
\* of the modelled span of time the origin of time is moved forward, which
\* keeps both: a last flush more than MAX_WAIT_TIME ago counts as one
\* MAX_WAIT_TIME ago, a sleep that has ended as one that ends now.
ClockShift ==
    /\ now = MaxTime
    /\ LET origin == now - MAX_WAIT_TIME
       IN  /\ now' = now - origin
           /\ last_flush_time' = IF last_flush_time > origin
                                 THEN last_flush_time - origin ELSE 0
           /\ monitor_wake' = IF monitor_wake > now
                              THEN monitor_wake - origin ELSE now - origin
    /\ UNCHANGED <<flow_buffer, total_flows_received, total_batches_processed,
                   total_attacks_detected, last_batch_attack_rate, current_threat_level,
                   expected_feature_set, connected_live_clients, inflight, monitor_pc,
                   response, publish_tasks, published, publish_returned, flows_scored, flows_evicted, flows_dropped>>
    /\ UNCHANGED <<consumerVars, processorVars, broadcastVars, engineVars, alertVars>>

\* the service started with a model that names its features
BufferFairInit ==
    /\ ApiStart
    /\ NoSubscribers
    /\ EngineIdle
    /\ AlertIdle
    /\ broadcaster = "broadcast_to_live_clients"
    /\ expected_feature_set = TRUE
    /\ ConsumerDown
    /\ infra = "ok"
    /\ ProcessorStopped

\* submissions, the monitor, the dashboards and the clock
BufferFairNext ==
    \/ \E k \in SubmittedKinds : Submit(k)
    \/ MonitorWake
    \/ \E b \in inflight : BroadcastDone(b)
    \/ \E c \in Clients : ClientConnect(c)
    \/ \E c \in Clients : ClientDisconnect(c)
    \/ Tick
    \/ ClockShift

\* the same program over unbounded time and with its scheduling: time passes,
\* the monitor task gets its round once its sleep has ended, and a send to a
\* dashboard returns.  Requests are under no such condition: none need ever
\* arrive.
BufferFairSpec ==
    /\ BufferFairInit
    /\ [][BufferFairNext]_vars
    /\ WF_vars(Tick)
    /\ WF_vars(ClockShift)
    /\ WF_vars(MonitorWake)
    /\ WF_vars(\E b \in inflight : BroadcastDone(b))

\* the same program with a Redis whose calls may raise
PublisherInit ==
    /\ ApiStart
    /\ NoSubscribers
    /\ EngineIdle
    /\ AlertIdle
    /\ broadcaster = "broadcast_to_live_clients"
    /\ expected_feature_set = TRUE
    /\ ConsumerDown
    /\ infra = "flaky"
    /\ ProcessorStopped

\* the requests that lead to a publish, and the publishing tasks
PublisherNext ==
    \/ \E k \in SubmittedKinds : Submit(k)
    \/ ManualFlush
    \/ \E b \in inflight : BroadcastDone(b)
    \/ \E c \in Clients : ClientConnect(c)
    \/ \E c \in Clients : ClientDisconnect(c)
    \/ PublishRun

PublisherSpec == PublisherInit /\ [][PublisherNext]_vars

(***************************************************************************)
(* The threat assessment of process_buffer_batch on batches of             *)
(* RatedBatchSize predictions, which give every whole attack rate          *)
(***************************************************************************)
\* the statistics update of process_buffer_batch for a batch of n
\* predictions, attack_predictions of them attacks
RecordBatch(attack_predictions, n) ==
    /\ total_batches_processed < MaxRatedBatches
    /\ total_batches_processed' = total_batches_processed + 1
    /\ total_attacks_detected' = total_attacks_detected + attack_predictions
    /\ last_batch_attack_rate' = (attack_predictions * 100) \div n
    /\ current_threat_level' = assess_threat_level((attack_predictions * 100) \div n)
    /\ UNCHANGED <<flow_buffer, total_flows_received, last_flush_time, now,
                   expected_feature_set, connected_live_clients, inflight, monitor_pc,
                   monitor_wake, response, publish_tasks, published, publish_returned,
                   flows_scored, flows_evicted, flows_dropped>>
    /\ UNCHANGED <<consumerVars, processorVars, broadcastVars, engineVars, alertVars>>

ThreatNext == \E a \in 0..RatedBatchSize : RecordBatch(a, RatedBatchSize)

ThreatSpec == BufferInit /\ [][ThreatNext]_vars

(***************************************************************************)
(* ml_processor: MLPredictionProcessor, the consumer group                 *)
(* alerts_processor on ml:predictions.  An entry is                        *)
(*   "batch"   a batch-result message with total predictions, attacks of   *)
(*             them flagged is_attack                                      *)
(*   "single"  a message without batch_results                             *)
(***************************************************************************)
\* the floors and tiers of process_prediction, in flows and percent
MIN_BATCH_FLOWS == 40
MIN_ATTACK_PCT == 40
SEVERITY_CRITICAL_PCT == 80
SEVERITY_HIGH_PCT == 65
SEVERITY_MEDIUM_PCT == 50
ML_READ_COUNT == 10

\* the batches published in a run, as <<total, attacks>>: around each floor
\* and each tier boundary
BatchShapes ==
    {<<39, 39>>, <<40, 15>>, <<40, 16>>, <<40, 18>>, <<40, 20>>,
     <<40, 25>>, <<40, 26>>, <<40, 31>>, <<40, 32>>, <<100, 65>>}

BatchMessages ==
    {[kind |-> "batch", mid |-> m, total |-> sh[1], attacks |-> sh[2]] :
        m \in MsgIds, sh \in BatchShapes}
    \cup {[kind |-> "single", mid |-> m, total |-> 0, attacks |-> 0] : m \in MsgIds}

\* variants of the two tests below with a strict comparison
AttackFloorMet_Strict(attacks, total) == attacks * 100 > MIN_ATTACK_PCT * total

\* attack_percentage >= 40.0, where attack_percentage = attacks / total * 100
AttackFloorMet(attacks, total) == attacks * 100 >= MIN_ATTACK_PCT * total

SeverityOf_Strict(attacks, total) ==
    IF attacks * 100 > SEVERITY_CRITICAL_PCT * total THEN "critical"
    ELSE IF attacks * 100 > SEVERITY_HIGH_PCT * total THEN "high"
    ELSE IF attacks * 100 > SEVERITY_MEDIUM_PCT * total THEN "medium"
    ELSE "low"

\* the severity table of process_prediction
SeverityOf(attacks, total) ==
    IF attacks * 100 >= SEVERITY_CRITICAL_PCT * total THEN "critical"
    ELSE IF attacks * 100 >= SEVERITY_HIGH_PCT * total THEN "high"
    ELSE IF attacks * 100 >= SEVERITY_MEDIUM_PCT * total THEN "medium"
    ELSE "low"

\* process_prediction: the severity of the alert data it returns, "none"
\* when it returns None
process_prediction(msg_data) ==
    IF msg_data.kind # "batch" THEN "none"
    ELSE IF msg_data.total = 0 THEN "none"
    ELSE IF msg_data.total < MIN_BATCH_FLOWS THEN "none"
    ELSE IF ~AttackFloorMet(msg_data.attacks, msg_data.total) THEN "none"
    ELSE IF msg_data.attacks = 0 THEN "none"
    ELSE SeverityOf(msg_data.attacks, msg_data.total)

\* XADD of a message to ml:predictions
PublishBatch(m) ==
    /\ Len(ml_stream) < MaxBatchEntries
    /\ ml_stream' = Append(ml_stream, m)
    /\ UNCHANGED <<ml_group_exists, ml_last_delivered, ml_pending, ml_acked,
                   security_alerts, running, messages>>
    /\ UNCHANGED <<consumerVars, bufferVars, broadcastVars, engineVars, alertVars>>

\* start(): connect() creates the group at id "0" unless it exists, then the
\* processing loop runs
ProcessorStart ==
    /\ ~running
    /\ running' = TRUE
    /\ ml_group_exists' = TRUE
    /\ messages' = <<>>
    /\ UNCHANGED <<ml_stream, ml_last_delivered, ml_pending, ml_acked, security_alerts>>
    /\ UNCHANGED <<consumerVars, bufferVars, broadcastVars, engineVars, alertVars>>

\* XREADGROUP ... {ml:predictions: ">"} count=10 returning entries
ProcessorRead ==
    /\ running
    /\ messages = <<>>
    /\ ml_last_delivered < Len(ml_stream)
    /\ LET last == Min(Len(ml_stream), ml_last_delivered + ML_READ_COUNT)
           new == (ml_last_delivered + 1)..last
       IN  /\ ml_last_delivered' = last
           /\ ml_pending' = ml_pending \cup new
           /\ messages' = InIdOrder(new)
    /\ UNCHANGED <<ml_stream, ml_group_exists, ml_acked, security_alerts, running>>
    /\ UNCHANGED <<consumerVars, bufferVars, broadcastVars, engineVars, alertVars>>

\* the body of the loop over the entries read: process_prediction, then
\* create_alert_in_db and XACK.  A failed insert and a failed XACK leave the
\* entry pending.
ProcessorHandle ==
    /\ running
    /\ messages # <<>>
    /\ LET msg_id == Head(messages)
           severity == process_prediction(ml_stream[msg_id])
       IN  \E success \in CallOutcomes, ack_ok \in CallOutcomes :
              /\ security_alerts' =
                     IF severity # "none" /\ success
                     THEN security_alerts \cup
                              {[entry |-> msg_id, mid |-> ml_stream[msg_id].mid,
                                severity |-> severity]}
                     ELSE security_alerts
              /\ IF (severity = "none" \/ success) /\ ack_ok
                 THEN /\ ml_acked' = ml_acked \cup {msg_id}
                      /\ ml_pending' = ml_pending \ {msg_id}
                 ELSE UNCHANGED <<ml_acked, ml_pending>>
    /\ messages' = Tail(messages)
    /\ UNCHANGED <<ml_stream, ml_group_exists, ml_last_delivered, running>>
    /\ UNCHANGED <<consumerVars, bufferVars, broadcastVars, engineVars, alertVars>>

\* the processor's process dies; it may be started again
ProcessorCrash ==
    /\ running
    /\ running' = FALSE
    /\ messages' = <<>>
    /\ UNCHANGED <<ml_stream, ml_group_exists, ml_last_delivered, ml_pending, ml_acked,
                   security_alerts>>
    /\ UNCHANGED <<consumerVars, bufferVars, broadcastVars, engineVars, alertVars>>

ProcessorInit ==
    /\ ProcessorStopped
    /\ NoSubscribers
    /\ EngineIdle
    /\ AlertIdle
    /\ broadcaster = "broadcast_to_live_clients"
    /\ ConsumerDown
    /\ infra \in {"ok", "flaky"}
    /\ ApiStart
    /\ expected_feature_set = TRUE

ProcessorNext ==
    \/ \E m \in BatchMessages : PublishBatch(m)
    \/ ProcessorStart
    \/ ProcessorRead
    \/ ProcessorHandle
    \/ ProcessorCrash

ProcessorSpec == ProcessorInit /\ [][ProcessorNext]_vars

\* the steps of the processor's own task
ProcessorStep == ProcessorStart \/ ProcessorRead \/ ProcessorHandle

\* one life of the processor's process
ProcessorFairNext ==
    \/ \E m \in BatchMessages : PublishBatch(m)
    \/ ProcessorStep

\* the processor is started, does not die, and is scheduled whenever it can
\* take a step
ProcessorFairSpec ==
    ProcessorInit /\ [][ProcessorFairNext]_vars /\ WF_vars(ProcessorStep)

(***************************************************************************)
(* Websocket broadcasters: broadcast_to_live_clients (beast_mode_api),     *)
(* ConnectionManager.broadcast (websocket_manager) and                     *)
(* MLConnectionManager.broadcast (websockets).  Every send is an await, so *)
(* endpoint handlers of other websockets run between two sends.            *)
(***************************************************************************)
Subscribers == 1..MaxSubscribers

Broadcasters == {"broadcast_to_live_clients", "ConnectionManager", "MLConnectionManager"}

Listed == {active_connections[i] : i \in 1..Len(active_connections)}

Failed == {to_remove[i] : i \in 1..Len(to_remove)}

\* list.remove(c) / set.remove(c)
Without(q, S) == SelectSeq(q, LAMBDA c : c \notin S)

\* broadcast_to_live_clients sends under live_clients_lock, which the
\* /ws/live handler takes to add and to remove its websocket; the two
\* managers have no lock
LockHeld == broadcaster = "broadcast_to_live_clients" /\ bc_pc = "sending"

\* what the send loop iterates: list(connected_live_clients), a copy, in
\* broadcast_to_live_clients; self.active_connections itself in the managers
Iterated ==
    IF broadcaster = "broadcast_to_live_clients" THEN bc_iterated
    ELSE active_connections

\* a websocket endpoint accepts a connection and registers it
SubscriberConnect(c) ==
    /\ c \notin Listed
    /\ ~LockHeld
    /\ active_connections' = Append(active_connections, c)
    /\ UNCHANGED <<broadcaster, broken, bc_pc, bc_index, bc_iterated, to_remove,
                   received, bc_present>>
    /\ UNCHANGED <<consumerVars, bufferVars, processorVars, engineVars, alertVars>>

\* the peer of a connected websocket goes away: sends to it raise from now on
PeerLost(c) ==
    /\ c \in Listed
    /\ c \notin broken
    /\ broken' = broken \cup {c}
    /\ UNCHANGED <<broadcaster, active_connections, bc_pc, bc_index, bc_iterated,
                   to_remove, received, bc_present>>
    /\ UNCHANGED <<consumerVars, bufferVars, processorVars, engineVars, alertVars>>

\* the endpoint handler of c sees WebSocketDisconnect and unregisters c
SubscriberDisconnect(c) ==
    /\ c \in Listed
    /\ ~LockHeld
    /\ active_connections' = Without(active_connections, {c})
    /\ broken' = broken \ {c}
    /\ bc_present' = bc_present \ {c}
    /\ UNCHANGED <<broadcaster, bc_pc, bc_index, bc_iterated, to_remove, received>>
    /\ UNCHANGED <<consumerVars, bufferVars, processorVars, engineVars, alertVars>>

\* a broadcast begins: empty failure list, the iterator at the first element
BroadcastStart ==
    /\ bc_pc = "idle"
    /\ bc_pc' = "sending"
    /\ bc_index' = 0
    /\ bc_iterated' = IF broadcaster = "broadcast_to_live_clients"
                      THEN active_connections ELSE <<>>
    /\ to_remove' = <<>>
    /\ received' = {}
    /\ bc_present' = Listed
    /\ UNCHANGED <<broadcaster, active_connections, broken>>
    /\ UNCHANGED <<consumerVars, bufferVars, processorVars, engineVars, alertVars>>

\* one round of the send loop: the iterator yields its next element, the
\* message is sent to it, and a send that raises puts it on the failure list
\* (ConnectionManager puts a websocket it finds DISCONNECTED there as well).
\* What other tasks do while the send is awaited shows as their steps
\* between this round and the next.
BroadcastSend ==
    /\ bc_pc = "sending"
    /\ bc_index < Len(Iterated)
    /\ LET c == Iterated[bc_index + 1]
       IN  IF c \in broken
           THEN /\ to_remove' = Append(to_remove, c)
                /\ received' = received
           ELSE /\ received' = received \cup {c}
                /\ to_remove' = to_remove
    /\ bc_index' = bc_index + 1
    /\ UNCHANGED <<broadcaster, active_connections, broken, bc_pc, bc_iterated,
                   bc_present>>
    /\ UNCHANGED <<consumerVars, bufferVars, processorVars, engineVars, alertVars>>

\* the iterator is exhausted: every subscriber on the failure list that is
\* still registered is removed, and the broadcast returns
BroadcastFinish ==
    /\ bc_pc = "sending"
    /\ bc_index >= Len(Iterated)
    /\ active_connections' = Without(active_connections, Failed)
    /\ broken' = broken \ Failed
    /\ bc_pc' = "idle"
    /\ bc_index' = 0
    /\ bc_iterated' = <<>>
    /\ UNCHANGED <<broadcaster, to_remove, received, bc_present>>
    /\ UNCHANGED <<consumerVars, bufferVars, processorVars, engineVars, alertVars>>

BroadcastInit ==
    /\ NoSubscribers
    /\ EngineIdle
    /\ AlertIdle
    /\ broadcaster \in Broadcasters
    /\ ConsumerDown
    /\ infra = "ok"
    /\ ApiStart
    /\ expected_feature_set = TRUE
    /\ ProcessorStopped

BroadcastNext ==
    \/ \E c \in Subscribers : SubscriberConnect(c)
    \/ \E c \in Subscribers : PeerLost(c)
    \/ \E c \in Subscribers : SubscriberDisconnect(c)
    \/ BroadcastStart
    \/ BroadcastSend
    \/ BroadcastFinish

BroadcastSpec == BroadcastInit /\ [][BroadcastNext]_vars

(***************************************************************************)
(* beast_mode_inference.py: BeastModeInferenceEngine.  A flow is a dict    *)
(* from feature names to numbers; probabilities are in thousandths.  The   *)
(* estimators and the scaler come from a pickle: Scale and AttackProb      *)
(* stand for them as functions of one cell and of one row.                 *)
(***************************************************************************)
\* scaler_info["feature_names"], the declared features in their order
feature_names == <<"Dst Port", "Flow Duration">>

FeatureValues == {0, 1}

Declared == {feature_names[j] : j \in 1..Len(feature_names)}

Flows == UNION {[K -> FeatureValues] : K \in SUBSET Declared}

Batches == UNION {[1..n -> Flows] : n \in 1..MaxBatchLen}

\* probabilities below 0.022 are classified as attacks; in thousandths
DECISION_THRESHOLD == 22

\* the cell pandas gives a row that has no value in a column of the frame
NaN == -1

\* what the estimators do with a NaN cell: scikit-learn estimators without
\* missing-value support raise, a network returns NaN, gradient-boosted
\* trees send the row down their default branch
NanPolicies == {"raises", "propagates", "native"}

\* a variant that leaves an absent column without a value
MissingDefault_NaN == NaN

\* df[c] = 0 for a declared column the frame does not have
MissingDefault == 0

\* pd.DataFrame(flows_data).columns: every key of some flow
Columns(flows) == UNION {DOMAIN flows[i] : i \in 1..Len(flows)}

\* the frame's cell for row i and the declared column c, after the absent
\* columns were added
Cell(flows, i, c) ==
    IF c \in DOMAIN flows[i] THEN flows[i][c]
    ELSE IF c \in Columns(flows) THEN NaN
    ELSE MissingDefault

\* self.scaler.transform, cell by cell; NaN passes through
Scale(v) == IF v = NaN THEN NaN ELSE 2 * v + 1

\* _preprocess_batch_vectorized: df[self.feature_names], scaled
PreprocessBatch(flows) ==
    [i \in 1..Len(flows) |->
        [j \in 1..Len(feature_names) |-> Scale(Cell(flows, i, feature_names[j]))]]

HasNaN(row) == \E j \in 1..Len(row) : row[j] = NaN

RECURSIVE RowSum(_)
RowSum(row) ==
    IF row = <<>> THEN 0
    ELSE (IF Head(row) = NaN THEN 2 ELSE Head(row)) + RowSum(Tail(row))

\* probabilities are counted in thousandths: 1.0
ProbScale == 1000

\* a decision threshold of one half, the usual reading of a probability
IsAttackProb_Half(attack) == attack # NaN /\ 2 * attack < ProbScale

\* attack_probs[i] < DECISION_THRESHOLD: a low probability marks an attack
IsAttackProb(attack) == attack # NaN /\ attack < DECISION_THRESHOLD

\* final_model.predict_proba(...)[:, 1] for one row
AttackProb(row) ==
    IF HasNaN(row) /\ nan_policy = "propagates" THEN NaN ELSE 7 * RowSum(row)

\* one element of predictions
\* the result record built for one row from its attack probability: the
\* benign probability is the other column of predict_proba
ScoredPrediction(attack) ==
    LET benign == IF attack = NaN THEN NaN ELSE ProbScale - attack
    IN  [is_attack |-> IsAttackProb(attack),
         attack_probability |-> attack,
         benign_probability |-> benign,
         confidence |-> IF attack >= benign THEN attack ELSE benign]

Prediction(row) == ScoredPrediction(AttackProb(row))

\* predict_batch_ultra_fast: the predictions of every row, or the exception
\* of an estimator that refuses the matrix
predict_batch_ultra_fast(flows) ==
    LET m == PreprocessBatch(flows)
    IN  IF nan_policy = "raises" /\ \E i \in 1..Len(m) : HasNaN(m[i])
        THEN [raised |-> TRUE, predictions |-> <<>>]
        ELSE [raised |-> FALSE, predictions |-> [i \in 1..Len(m) |-> Prediction(m[i])]]

\* predict_single_ultra_fast: the batch of one flow, and its first prediction
predict_single_ultra_fast(flow) == predict_batch_ultra_fast(<<flow>>)

\* the batch is scored, and each of its flows alone
PredictBatch ==
    /\ engine_pc = "ready"
    /\ engine_pc' = "done"
    /\ X' = PreprocessBatch(flows_data)
    /\ batch_result' = predict_batch_ultra_fast(flows_data)
    /\ single_results' = [i \in 1..Len(flows_data) |->
                              predict_single_ultra_fast(flows_data[i])]
    /\ UNCHANGED <<flows_data, nan_policy>>
    /\ UNCHANGED <<consumerVars, bufferVars, processorVars, broadcastVars, alertVars>>

EngineInit ==
    /\ flows_data \in Batches
    /\ nan_policy \in NanPolicies
    /\ engine_pc = "ready"
    /\ X = <<>>
    /\ batch_result = NoResult
    /\ single_results = <<>>
    /\ AlertIdle
    /\ NoSubscribers
    /\ broadcaster = "broadcast_to_live_clients"
    /\ ConsumerDown
    /\ infra = "ok"
    /\ ApiStart
    /\ expected_feature_set = TRUE
    /\ ProcessorStopped

EngineNext == PredictBatch

EngineSpec == EngineInit /\ [][EngineNext]_vars

(***************************************************************************)
(* Properties of the Durable-Log Consumer                                  *)
(***************************************************************************)
\* an attack prediction on a resource the store resolves
AlertWorthy(p) == p.kind = "valid" /\ p.attack /\ p.known

Delivered(e) == e \in pending \cup acked

\* two entries carry the same message id, both alert-worthy
SameMessage(i, j) ==
    /\ i < j
    /\ Delivered(i) /\ Delivered(j)
    /\ AlertWorthy(stream[i]) /\ AlertWorthy(stream[j])
    /\ stream[i].mid = stream[j].mid

\* C1: when one message id has been delivered twice for an attack on a
\* resolvable resource, a single Alert is persisted for it: once both
\* deliveries are acknowledged there is at most one Alert (that there is at
\* least one is C2), and a pass that handles the second delivery when the
\* first is acknowledged and its Alert exists creates no Alert.
C1_ExactlyOneAlert ==
    \A i \in EntryIds, j \in EntryIds :
        SameMessage(i, j) =>
            /\ (i \in acked /\ j \in acked) => alerts[stream[i].mid] <= 1
            /\ (i \in acked /\ cur = j /\ cpc = "returned"
                    /\ alerts[stream[i].mid] - created >= 1) => created = 0

\* C2: an alert-worthy entry is never acknowledged unless an Alert for its
\* message id is persisted or its payload is in the dead-letter stream, also
\* after failed attempts, redeliveries and startup reclaims (stated for runs
\* in which no call to Redis or to the store fails).
C2_AckOnlyAfterEffect ==
    \A e \in acked :
        (infra = "ok" /\ AlertWorthy(stream[e])) =>
            (alerts[stream[e].mid] >= 1 \/ e \in dlq)

\* C3: when processing an entry fails in redis_consumer_loop (no Redis call
\* failing), its retry counter goes up by one; below MAX_RETRIES the entry
\* stays pending, at or above it the entry is dead-lettered and acknowledged.
C3_RetryThenDlq ==
    [][(infra = "ok" /\ cpc = "raised" /\ cpc' = "iter") =>
          /\ retry'[cur] = retry[cur] + 1
          /\ (retry'[cur] < MAX_RETRIES => cur \in pending')
          /\ (retry'[cur] >= MAX_RETRIES => (cur \in dlq' /\ cur \notin pending'))
      ]_vars

\* an entry whose processing fails on every attempt
Poison(e) == e <= Len(stream) /\ stream[e].kind = "nonobject"

\* C4: under fair scheduling of the consumer a delivered entry that fails on
\* every attempt is eventually dead-lettered and acknowledged.
C4_PoisonTerminates ==
    \A e \in EntryIds :
        (Poison(e) /\ e \in pending) ~> (e \in dlq /\ e \notin pending)

\* C5: when the store is unreachable while an entry on a resolvable resource
\* is handled (the resource lookup raises, or both insert paths raise), the
\* entry is neither acknowledged nor dead-lettered on that attempt.
C5_StoreFailureKeepsPending ==
    [][/\ (cpc = "pm_resolve" /\ Entry.known /\ lookup' = "raised") => cur \in pending'
       /\ (cpc = "pm_raw" /\ cpc' \in {"pm_dlq_ack", "raised"} /\ cur \notin dlq)
              => cur \notin dlq'
      ]_vars

\* what the code does about retries: a retry counter never exceeds one,
\* because only the main loop counts and XREADGROUP ">" delivers an entry once
RetryAtMostOne == \A e \in EntryIds : retry[e] <= 1

\* what the code does about poison entries: none is ever dead-lettered
PoisonNeverDeadLettered == \A e \in dlq : ~Poison(e)

\* an entry that carries no usable message: no payload, no JSON, JSON that
\* is no object, or an object without a required field
Unusable(e) == stream[e].kind \in {"nopayload", "badjson", "nonobject", "missing"}

\* what C16 says of the entry e
DeadLetteredAtOnce(e) ==
    /\ retry[e] = 0
    /\ e \in acked => e \in dlq
    /\ (cur = e /\ cpc \in {"returned", "raised"}) =>
           /\ e \in dlq
           /\ e \notin pending
           /\ created = 0
           /\ ~was_set

\* C16: with every Redis call succeeding, an entry without a usable message
\* is dead-lettered and acknowledged by the call of process_message it is
\* first handed to, with no Alert, no dedup marker and no retry counted.
C16_InvalidDeadLettered ==
    infra = "ok" =>
        \A e \in 1..Len(stream) : Unusable(e) => DeadLetteredAtOnce(e)

\* what the code does: C16 holds of the entries whose payload is absent, is
\* not JSON, or is an object without a required field
ObjectsDeadLetteredAtOnce ==
    infra = "ok" =>
        \A e \in 1..Len(stream) :
            stream[e].kind \in {"nopayload", "badjson", "missing"} => DeadLetteredAtOnce(e)

\* C17: a batch-result message in the form publish_batch_results writes is
\* not dead-lettered by process_message.
C17_BatchResultAccepted ==
    infra = "ok" => \A e \in dlq : stream[e].kind # "batch"

\* the entries of a list of entry ids
Range(q) == {q[i] : i \in 1..Len(q)}

\* C19: a failure while one entry is handled never keeps the remaining
\* entries of the read batch or of the startup sweep from process_message:
\* when the loop goes on after a raise, the entries still to be handled are
\* the same.
C19_FailureIsolation ==
    [][(infra = "ok" /\ cpc = "raised" /\ cpc' = "iter") => work' = work]_vars

\* C20: every entry pending when an instance starts is reclaimed and
\* processed by its startup sweep: once the instance is in its main loop,
\* with every call succeeding, an entry is pending only if it is in the
\* batch being read or its processing raises.
C20_SweepRecoversPending ==
    (infra = "ok" /\ mode = "loop" /\ cpc # "down") =>
        \A e \in pending : Poison(e) \/ e = cur \/ e \in Range(work)

(***************************************************************************)
(* Properties of the flow buffer                                           *)
(***************************************************************************)
\* C6: the buffer never holds more than MAX_BUFFER_CAPACITY flows, and it
\* holds exactly the most recently submitted flows in arrival order: flows
\* leave at the head only, so the flow at position i is the one submitted
\* Len(flow_buffer) - i submissions ago.
C6_DropOldest ==
    /\ Len(flow_buffer) <= MAX_BUFFER_CAPACITY
    /\ \A i \in 1..Len(flow_buffer) :
           flow_buffer[i].id = total_flows_received - Len(flow_buffer) + i

\* more flows were submitted than the buffer takes and no batch has left it:
\* the buffer is full and its oldest flows were dropped
C6_OldestDropped ==
    /\ total_flows_received > MAX_BUFFER_CAPACITY
    /\ total_batches_processed = 0
    /\ Len(flow_buffer) = MAX_BUFFER_CAPACITY
    /\ flow_buffer[1].id = total_flows_received - MAX_BUFFER_CAPACITY + 1

\* C7: in every reachable state, under any interleaving of submissions,
\* size-, timeout- and manually triggered flushes and the re-insertion of
\* failed batches, the buffer holds at most MAX_BUFFER_CAPACITY flows.
C7_BoundedMemory == Len(flow_buffer) <= MAX_BUFFER_CAPACITY

\* a failed batch was put back at the head of a buffer that is full
C7_FullAfterReinsert ==
    /\ Len(flow_buffer) = MAX_BUFFER_CAPACITY
    /\ response.result \in {"raised", "no_valid"}

\* C8: between the extraction of a batch and the completion or failure of
\* its processing no other trigger extracts another batch: at most one call
\* of process_buffer_batch holds an extracted batch.
C8_OneFlushInFlight == Cardinality(inflight) <= 1

\* the batch a round of the monitor takes from the buffer
BatchLen == Min(Len(flow_buffer), BUFFER_SIZE)

\* C9: a round of the background monitor flushes a non-empty buffer when the
\* time since the last flush has reached MAX_WAIT_TIME (the batch leaves the
\* buffer, or its processing fails and the buffer is as before), and touches
\* nothing while that time is below MAX_WAIT_TIME or the buffer is empty.
C9_TimeoutFlush ==
    [][MonitorWake =>
         /\ (flow_buffer # <<>> /\ now - last_flush_time >= MAX_WAIT_TIME) =>
                /\ last_flush_time' = now
                /\ \/ /\ flow_buffer' = SubSeq(flow_buffer, BatchLen + 1, Len(flow_buffer))
                      /\ total_batches_processed' = total_batches_processed + 1
                   \/ /\ flow_buffer' = flow_buffer
                      /\ response'.result \in {"raised", "no_valid"}
                      /\ total_batches_processed' = total_batches_processed
         /\ (flow_buffer = <<>> \/ now - last_flush_time < MAX_WAIT_TIME) =>
                /\ response'.result = "idle"
                /\ UNCHANGED <<flow_buffer, last_flush_time, total_batches_processed,
                               inflight>>
      ]_vars

\* the monitor has just flushed a batch smaller than BUFFER_SIZE
C9_MonitorFlushed ==
    /\ response = [caller |-> "monitor", result |-> "scored", flows_processed |-> 1]
    /\ flow_buffer = <<>>
    /\ last_flush_time = now
    /\ total_flows_received = 1

\* the flows of a buffer the scorer takes: a configured feature set and
\* numeric values
Scorable(buf) ==
    /\ expected_feature_set
    /\ \A i \in 1..Len(buf) : WellFormed(buf[i])

\* the total_flows of the batch result a submission step produced, handed to
\* the caller at once or after the broadcast
ReportsTotal(n) ==
    \/ response' = [caller |-> "submit", result |-> "scored", flows_processed |-> n]
    \/ \E b \in inflight' \ inflight : b.caller = "submit" /\ b.flows_processed = n

\* what C10 says of the submission of a flow of kind k
SizeTriggerPost(k) ==
    LET f == [id |-> total_flows_received + 1, kind |-> k]
        size == Len(flow_buffer) + 1
    IN  /\ (size = BUFFER_SIZE /\ Scorable(Append(flow_buffer, f))) =>
               /\ flow_buffer' = <<>>
               /\ last_flush_time' = now
               /\ total_batches_processed' = total_batches_processed + 1
               /\ ReportsTotal(BUFFER_SIZE)
        /\ (size < BUFFER_SIZE /\ now - last_flush_time < MAX_WAIT_TIME) =>
               /\ flow_buffer' = Append(flow_buffer, f)
               /\ response'.result = "buffered"
               /\ UNCHANGED <<last_flush_time, total_batches_processed, inflight>>

\* C10: the submission that brings a buffer of scorable flows to BUFFER_SIZE
\* flushes in the same request: the buffer is empty afterwards, exactly one
\* batch is processed and its result reports total_flows = BUFFER_SIZE; a
\* submission that leaves the buffer below BUFFER_SIZE while the time since
\* the last flush is below MAX_WAIT_TIME flushes nothing.
C10_SizeTrigger ==
    [][\A k \in FlowKinds : Submit(k) => SizeTriggerPost(k)]_vars

\* BUFFER_SIZE submissions into the empty buffer, the last one flushed them
C10_FlushedAtSize ==
    /\ response = [caller |-> "submit", result |-> "scored",
                   flows_processed |-> BUFFER_SIZE]
    /\ total_flows_received = BUFFER_SIZE
    /\ total_batches_processed = 1
    /\ flow_buffer = <<>>

\* the ids of the flows of a buffer or batch
Ids(q) == {q[i].id : i \in 1..Len(q)}

\* the flows that are out of the buffer after a step: buffered before it or
\* submitted in it, and not buffered after it
Left ==
    (Ids(flow_buffer) \cup (total_flows_received + 1)..total_flows_received')
        \ Ids(flow_buffer')

\* the flow a submission drops at the capacity ceiling
Evicted ==
    IF total_flows_received' # total_flows_received
           /\ Len(flow_buffer) >= MAX_BUFFER_CAPACITY
    THEN {flow_buffer[1].id} ELSE {}

\* C11: flows are flushed in submission order.  The batch a flush takes from
\* the buffer lists its flows in submission order; every flow that leaves
\* the buffer in a step was submitted before every flow that stays, and the
\* evicted flow before the flushed ones, so of two flushed flows the earlier
\* one is in the same or an earlier batch; a flow leaves the buffer only in
\* a batch that is processed or as the oldest flow of a full buffer.
C11_FifoFlush ==
    [][/\ flow_buffer # <<>> =>
              LET batch == ProcessBatch(flow_buffer).batch
              IN  \A i \in 1..Len(batch), j \in 1..Len(batch) :
                      i < j => batch[i].id < batch[j].id
       /\ \A a \in Left, b \in Ids(flow_buffer') : a < b
       /\ \A a \in Evicted, b \in Left \ Evicted : a < b
       /\ (Left \ Evicted) # {} =>
              /\ total_batches_processed' = total_batches_processed + 1
              /\ last_flush_time' = now
              /\ Cardinality(Left \ Evicted) <= BUFFER_SIZE
      ]_vars

\* two batches have been flushed and the newest flow is still buffered
C11_TwoBatchesFlushed ==
    /\ total_batches_processed = 2
    /\ Len(flow_buffer) = 1
    /\ flow_buffer[1].id = total_flows_received

\* the scorer raises on the batch process_buffer_batch takes from buf: with a
\* configured feature set when a value is not a number, without one on any
\* batch of which conversion keeps a flow
RaisesOn(buf) ==
    LET batch == SubSeq(buf, 1, Min(Len(buf), BUFFER_SIZE))
    IN  /\ buf # <<>>
        /\ IF expected_feature_set
           THEN \E i \in 1..Len(batch) : ~WellFormed(batch[i])
           ELSE \E i \in 1..Len(batch) : HasMeta(batch[i])

\* what C12 says of a call of process_buffer_batch by caller on the buffer buf
RestoredPost(caller, buf) ==
    RaisesOn(buf) =>
        /\ flow_buffer' = buf
        /\ response' = [caller |-> caller, result |-> "raised", flows_processed |-> 0]
        /\ UNCHANGED <<total_batches_processed, total_attacks_detected,
                       last_batch_attack_rate, current_threat_level, inflight>>

\* C12: when scoring the extracted batch raises, the call leaves the buffer
\* as it was before the extraction (every flow of the batch back at the
\* head, in its order, ahead of the rest, none lost or duplicated), counts
\* no batch and raises to its caller.
C12_RestoreOnFailure ==
    [][/\ ManualFlush => RestoredPost("flush", flow_buffer)
       /\ (MonitorWake /\ TimeoutDue(Len(flow_buffer), now - last_flush_time))
              => RestoredPost("monitor", flow_buffer)
       /\ \A k \in FlowKinds :
              LET f == [id |-> total_flows_received + 1, kind |-> k]
                  kept == IF Len(flow_buffer) >= MAX_BUFFER_CAPACITY
                          THEN Tail(flow_buffer) ELSE flow_buffer
              IN  (Submit(k) /\ ShouldProcess(Len(kept) + 1, now - last_flush_time))
                      => RestoredPost("submit", Append(kept, f))
      ]_vars

\* a batch of BUFFER_SIZE flows failed in the scorer and is back in the buffer
C12_BatchRestored ==
    /\ expected_feature_set
    /\ response = [caller |-> "submit", result |-> "raised", flows_processed |-> 0]
    /\ total_flows_received = BUFFER_SIZE
    /\ Len(flow_buffer) = BUFFER_SIZE
    /\ flow_buffer[1].id = 1

(***************************************************************************)
(* Properties of MLPredictionProcessor                                     *)
(***************************************************************************)
\* entry e has a row in security_alerts
HasAlert(e) == \E a \in security_alerts : a.entry = e

ClaimedSeverity(attacks, total) ==
    IF attacks * 100 >= 80 * total THEN "critical"
    ELSE IF attacks * 100 >= 65 * total THEN "high"
    ELSE IF attacks * 100 >= 50 * total THEN "medium"
    ELSE "low"

\* C14: every alert made for a batch carries the severity of its attack
\* percentage p: critical if p >= 80, high if 65 <= p < 80, medium if
\* 50 <= p < 65, low if 40 <= p < 50.
C14_SeverityTiers ==
    \A a \in security_alerts :
        a.severity = ClaimedSeverity(ml_stream[a.entry].attacks, ml_stream[a.entry].total)

\* alerts exist for 45% (low) and for exactly 65% (high) of 40 flows
C14_TiersSeen ==
    /\ \E a \in security_alerts :
           ml_stream[a.entry].attacks = 18 /\ a.severity = "low"
    /\ \E a \in security_alerts :
           ml_stream[a.entry].attacks = 26 /\ a.severity = "high"

\* C18: an Alert is never created twice for the same message identifier,
\* even with every call to Redis and to the store succeeding.
C18_OneAlertPerMessageId ==
    infra = "ok" =>
        \A a \in security_alerts, b \in security_alerts :
            a.mid = b.mid => a = b

(***************************************************************************)
(* Properties of the threat assessment                                     *)
(***************************************************************************)
\* the claimed table
ClaimedThreat(r) ==
    IF r >= 75 THEN "CRITICAL"
    ELSE IF r >= 50 THEN "HIGH"
    ELSE IF r >= 25 THEN "MEDIUM"
    ELSE IF r >= 10 THEN "LOW"
    ELSE "NORMAL"

ThreatRank(level) ==
    CASE level = "NORMAL" -> 0
      [] level = "LOW" -> 1
      [] level = "MEDIUM" -> 2
      [] level = "HIGH" -> 3
      [] level = "CRITICAL" -> 4

\* C15: once a batch is assessed the threat level is the claimed table's
\* value for its attack rate (a rate on a boundary gets the higher tier),
\* and no lower rate is assessed higher: the mapping is monotone.
C15_ThreatTable ==
    total_batches_processed > 0 =>
        /\ current_threat_level = ClaimedThreat(last_batch_attack_rate)
        /\ \A r \in 0..last_batch_attack_rate :
               ThreatRank(assess_threat_level(r)) <= ThreatRank(current_threat_level)

\* a batch with an attack rate of exactly 75% was assessed CRITICAL
C15_OnBoundary ==
    /\ total_batches_processed > 0
    /\ last_batch_attack_rate = 75
    /\ current_threat_level = "CRITICAL"

(***************************************************************************)
(* Properties of the websocket broadcasters                                *)
(***************************************************************************)
\* what a finished broadcast owes: the registered set loses exactly the
\* subscribers whose send raised, and every subscriber that was connected
\* from the beginning to the end of the broadcast and whose send did not
\* raise has been sent the message and is still registered
Isolated ==
    /\ Listed' = Listed \ Failed
    /\ \A c \in bc_present \ Failed : c \in received /\ c \in Listed'

\* C21: a broadcast removes exactly the subscribers whose send failed; every
\* other subscriber connected throughout it receives the message and stays
\* connected.
C21_BroadcastIsolation == [][(bc_pc = "sending" /\ bc_pc' = "idle") => Isolated]_vars

\* the same for broadcast_to_live_clients alone, which sends under its lock
\* to a copy of the set
LiveClientsIsolated ==
    [][(broadcaster = "broadcast_to_live_clients" /\ bc_pc = "sending" /\ bc_pc' = "idle")
          => Isolated]_vars

\* a broadcast of broadcast_to_live_clients ended with one send failed and
\* another subscriber served
LiveClientsOneFailed ==
    /\ broadcaster = "broadcast_to_live_clients"
    /\ bc_pc = "idle"
    /\ Len(to_remove) = 1
    /\ received # {}
    /\ received \subseteq Listed

(***************************************************************************)
(* Properties of the publisher                                             *)
(***************************************************************************)
BatchStatus == <<flow_buffer, total_flows_received, total_batches_processed,
                 total_attacks_detected, last_batch_attack_rate, current_threat_level,
                 last_flush_time, inflight, response>>

\* a call of publish_batch_results ends: it returns the entry id after
\* appending one entry when nothing failed and None otherwise, it appends at
\* most one entry, and it touches neither the buffer, the counters nor the
\* result its batch returned
PublishEnds ==
    /\ publish_returned'.value \in {"entry_id", "None"}
    /\ publish_returned'.failed = "none" =>
           (publish_returned'.value = "entry_id" /\ published' = published + 1)
    /\ publish_returned'.failed # "none" => publish_returned'.value = "None"
    /\ published' \in {published, published + 1}
    /\ UNCHANGED BatchStatus

\* process_buffer_batch reaches its publish: the batch is counted, its flows
\* are out of the buffer and the caller gets the statistics
PublishBegins ==
    /\ response'.result = "scored"
    /\ response'.flows_processed >= 1
    /\ total_batches_processed' >= 1
    /\ Len(flow_buffer') <= Len(flow_buffer)
    /\ \A i \in 1..Len(flow_buffer') : flow_buffer'[i].id > total_flows_received' - Len(flow_buffer')

\* C22: publish_batch_results appends one entry and returns its id on
\* success and returns None on any failure; a failed publish leaves the
\* batch result, the counters and the consumed flows as they were.
C22_PublishNonFatal ==
    [][/\ publish_tasks' = publish_tasks - 1 => PublishEnds
       /\ publish_tasks' = publish_tasks + 1 => PublishBegins]_vars

\* a batch was scored and returned, its publish failed before the append and
\* returned None, and the batch's flows are gone from the buffer
C22_FailedPublishBatchStands ==
    /\ publish_returned = [failed |-> "xadd", value |-> "None"]
    /\ published = 0
    /\ publish_tasks = 0
    /\ response.result = "scored"
    /\ total_batches_processed = 1
    /\ flow_buffer = <<>>

(***************************************************************************)
(* Properties of the inference engine                                      *)
(***************************************************************************)
\* the prediction of row i of the batch is the prediction of flow i alone
SameAsAlone(i) ==
    /\ ~batch_result.raised
    /\ ~single_results[i].raised
    /\ batch_result.predictions[i] = single_results[i].predictions[1]

\* C23: scoring a batch gives each row the is_attack, probabilities and
\* confidence that scoring its flow alone gives, whatever the other flows of
\* the batch are and whichever declared features they supply.
C23_BatchEqualsSingle ==
    engine_pc = "done" => \A i \in 1..Len(flows_data) : SameAsAlone(i)

\* the same for batches whose flows all carry the same features
SameKeysBatchEqualsSingle ==
    (engine_pc = "done" /\ \A i \in 1..Len(flows_data) : DOMAIN flows_data[i] = Columns(flows_data))
        => \A i \in 1..Len(flows_data) : SameAsAlone(i)

\* what the matrix owes the declared features: one column each, in the
\* declared order, holding the scaled value the flow supplies
DeclaredOrder ==
    \A i \in 1..Len(flows_data) :
        /\ Len(X[i]) = Len(feature_names)
        /\ \A j \in 1..Len(feature_names) :
               feature_names[j] \in DOMAIN flows_data[i]
                   => X[i][j] = Scale(flows_data[i][feature_names[j]])

\* C24: a declared feature that no submitted record carries is a column of
\* zeros in the matrix, and a batch whose only gaps are such columns is
\* scored; the matrix has the declared features in the declared order.
C24_AbsentFeatureIsZero ==
    engine_pc = "done" =>
        /\ DeclaredOrder
        /\ \A j \in 1..Len(feature_names) :
               feature_names[j] \notin Columns(flows_data)
                   => \A i \in 1..Len(flows_data) : X[i][j] = Scale(0)
        /\ (\A i \in 1..Len(flows_data) : DOMAIN flows_data[i] = Columns(flows_data))
               => ~batch_result.raised /\ Len(batch_result.predictions) = Len(flows_data)

\* a batch of two flows that both lack Flow Duration was scored with zeros
\* in that column
C24_ZeroColumnScored ==
    /\ engine_pc = "done"
    /\ Len(flows_data) = 2
    /\ \A i \in 1..2 : DOMAIN flows_data[i] = {"Dst Port"}
    /\ flows_data[1]["Dst Port"] # flows_data[2]["Dst Port"]
    /\ X[1][2] = Scale(0) /\ X[2][2] = Scale(0)
    /\ ~batch_result.raised
    /\ nan_policy = "raises"

(***************************************************************************)
(* Properties of the buffered ingestion endpoint                           *)
(***************************************************************************)
\* what /buffer-stats shows apart from total_flows_received and the times
BufferStatistics ==
    <<Len(flow_buffer), total_batches_processed, total_attacks_detected,
      last_batch_attack_rate, current_threat_level>>

\* C25: with an expected feature set configured, the submission of a flow
\* that lacks one of its features is answered with the missing-features
\* error and changes neither the buffer nor any counter, and no such flow is
\* ever in the buffer.
C25_IngestionValidation ==
    /\ [](expected_feature_set =>
              \A i \in 1..Len(flow_buffer) : flow_buffer[i].kind # "partial")
    /\ [][(expected_feature_set /\ (Submit("partial") \/ SubmitRejected("partial")))
             => /\ response' = [caller |-> "submit", result |-> "rejected",
                                flows_processed |-> 0]
                /\ UNCHANGED <<flow_buffer, total_flows_received, total_batches_processed,
                               total_attacks_detected, last_batch_attack_rate,
                               current_threat_level, last_flush_time, inflight,
                               publish_tasks>>]_vars

\* a flow was rejected while earlier flows were waiting in the buffer
C25_RejectedWhileBuffering ==
    /\ expected_feature_set
    /\ response = [caller |-> "submit", result |-> "rejected", flows_processed |-> 0]
    /\ flow_buffer # <<>>
    /\ Len(flow_buffer) = total_flows_received

\* C26: a submission that evicts the oldest flow of a full buffer shows it:
\* its response, or the statistics after it, differ from those of the
\* submission before it, which evicted nothing (every flow received so far
\* is still buffered).
C26_OverflowReported ==
    [][\A k \in FlowKinds :
          (/\ Submit(k)
           /\ expected_feature_set
           /\ Len(flow_buffer) >= MAX_BUFFER_CAPACITY
           /\ response.caller = "submit"
           /\ Len(flow_buffer) = total_flows_received)
              => (response' # response \/ BufferStatistics' # BufferStatistics)]_vars

\* the flows conversion keeps of the batch process_buffer_batch takes from buf
Kept(buf) ==
    LET batch == SubSeq(buf, 1, Min(Len(buf), BUFFER_SIZE))
    IN  IF expected_feature_set THEN batch ELSE SelectSeq(batch, HasMeta)

\* conversion drops some flows of the batch taken from buf and keeps others
PartlyConverted(buf) ==
    /\ buf # <<>>
    /\ Kept(buf) # <<>>
    /\ Len(Kept(buf)) < Min(Len(buf), BUFFER_SIZE)

\* C27: when conversion drops some flows of a batch and keeps others, the
\* kept flows are scored, the batch completes and is counted, and its
\* statistics give the number of kept flows as total_flows.
C27_PartialBatchSuccess ==
    [][(ManualFlush /\ PartlyConverted(flow_buffer) /\ connected_live_clients = {})
          => /\ response' = [caller |-> "flush", result |-> "scored",
                             flows_processed |-> Len(Kept(flow_buffer))]
             /\ total_batches_processed' = total_batches_processed + 1]_vars

\* whether the flow numbered id waits in the buffer
InBuffer(id) == \E i \in 1..Len(flow_buffer) : flow_buffer[i].id = id

Poisoned == \E i \in 1..Len(flow_buffer) : ~WellFormed(flow_buffer[i])

\* C28: with the monitor task scheduled fairly, every flow accepted into the
\* buffer eventually leaves it, scored in a batch or evicted, whether or not
\* further flows are submitted and although some batch fails
C28_EveryFlowLeaves ==
    \A id \in 1..MaxFlows : InBuffer(id) ~> ~InBuffer(id)

\* what does hold: a flow leaves unless a flow the scaler cannot take is in
\* the buffer with it
FlowLeavesUnlessPoisoned ==
    \A id \in 1..MaxFlows :
        InBuffer(id) ~> (~InBuffer(id) \/ Poisoned)

\* the flows of a batch whose call is suspended in its broadcast
BatchIds(b) == b.first .. (b.first + b.flows_processed - 1)

\* flows wait in arrival order, none twice and none missing in between
InArrivalOrder(buf) == \A i \in 1..(Len(buf) - 1) : buf[i + 1].id = buf[i].id + 1

\* the flows a step has to place, those it leaves in the buffer, those it takes
Placed == Ids(flow_buffer) \cup ((total_flows_received + 1) .. total_flows_received')

Taken == Placed \ Ids(flow_buffer')

Evicting == /\ total_flows_received' # total_flows_received
            /\ Len(flow_buffer) >= MAX_BUFFER_CAPACITY

Evictions == IF Evicting THEN 1 ELSE 0

\* C29: under every interleaving of submissions and of size-, timeout- and
\* manually triggered flushes: a flow is in one place only (the buffer or one
\* batch being broadcast), and once it has left the buffer in a scored batch
\* or by eviction it is never buffered, hence never extracted, again; a step
\* that takes flows takes the oldest ones (the evicted flow, then a batch of
\* up to BUFFER_SIZE) all at once together with the update of
\* last_flush_time, and the batch does not hold the evicted flow; a step
\* that scores nothing leaves the buffer whole
C29_AtomicExtraction ==
    /\ [](/\ InArrivalOrder(flow_buffer)
          /\ \A b \in inflight : BatchIds(b) \cap Ids(flow_buffer) = {}
          /\ \A b1, b2 \in inflight : b1 # b2 => BatchIds(b1) \cap BatchIds(b2) = {})
    /\ [][/\ \A id \in 1..total_flows_received : ~InBuffer(id) => ~InBuffer(id)'
          /\ \A t \in Taken : \A r \in Ids(flow_buffer') : t < r
          /\ IF total_batches_processed' # total_batches_processed
             THEN /\ Cardinality(Taken) =
                        Evictions + Min(Cardinality(Placed) - Evictions, BUFFER_SIZE)
                  /\ last_flush_time' = now
                  /\ \A b \in inflight' \ inflight :
                        /\ BatchIds(b) \subseteq Taken
                        /\ Evicting => flow_buffer[1].id \notin BatchIds(b)
                        /\ b.flows_processed = Cardinality(Taken) - Evictions
                  /\ inflight' = inflight =>
                        response'.flows_processed = Cardinality(Taken) - Evictions
             ELSE Cardinality(Taken) = Evictions]_vars

\* two batches are being broadcast at once while a flow waits in the buffer
C29_TwoBatchesInFlight ==
    /\ Cardinality(inflight) = 2
    /\ flow_buffer # <<>>

\* the status record
Status ==
    <<total_batches_processed, total_attacks_detected, last_batch_attack_rate,
      current_threat_level>>

AttacksIn(q) == Cardinality({i \in 1..Len(q) : q[i].kind = "attack"})

\* the status record after the oldest flows of src, up to BUFFER_SIZE of
\* them, have been scored as one batch
StatusAfter(src) ==
    LET batch == SubSeq(src, 1, Min(Len(src), BUFFER_SIZE))
        attack_rate == (AttacksIn(batch) * 100) \div Len(batch)
    IN  <<total_batches_processed + 1, total_attacks_detected + AttacksIn(batch),
          attack_rate, assess_threat_level(attack_rate)>>

\* more flows leave the buffer in this step than it evicts: a batch has been
\* taken and not put back, that is, scored
Scoring ==
    Len(flow_buffer) + (total_flows_received' - total_flows_received)
        - Len(flow_buffer') > Evictions

\* the buffer a submission of a flow of kind k hands to its flush
Submitted(k) ==
    LET f == [id |-> total_flows_received + 1, kind |-> k]
    IN  IF Len(flow_buffer) >= MAX_BUFFER_CAPACITY
        THEN Append(Tail(flow_buffer), f) ELSE Append(flow_buffer, f)

\* C30: the status record (total_batches_processed, total_attacks_detected,
\* last_batch_attack_rate, current_threat_level) changes only in a step that
\* scores a batch, and then once: batches + 1, attacks + the number of
\* attacks in that batch, the rate and the level of that batch.  A flush of
\* an empty buffer, a submission that scores no batch, and a batch whose
\* scoring fails leave the four unchanged.
C30_StatusOnlyByScoredBatch ==
    [][/\ ~Scoring => Status' = Status
       /\ \A k \in FlowKinds : (Scoring /\ Submit(k)) => Status' = StatusAfter(Submitted(k))
       /\ (Scoring /\ (ManualFlush \/ MonitorWake)) => Status' = StatusAfter(flow_buffer)
       /\ (flow_buffer = <<>> /\ ManualFlush) => Status' = Status
       /\ (/\ inflight' = inflight
           /\ response'.result \in {"raised", "no_valid", "empty", "buffered",
                                    "rejected", "idle"}) => Status' = Status
       /\ Scoring => (\E k \in FlowKinds : Submit(k)) \/ ManualFlush \/ MonitorWake]_vars

\* a batch with an attack has been scored, and a later batch has failed
C30_FailedBatchAfterScored ==
    /\ total_batches_processed = 1
    /\ total_attacks_detected = 1
    /\ response.result = "raised"
    /\ Len(flow_buffer) >= 2

(***************************************************************************)
(* Further properties of the Durable-Log Consumer                          *)
(***************************************************************************)
\* the step acknowledges the entry being handled
AcksCurrent == cur \in pending /\ cur \notin pending'

\* the step is the XACK of a dead-letter path: the one that follows the
\* dead-letter XADD in process_message, or the one of the retry ceiling
OnDeadLetterPath == cpc = "pm_dlq_ack" \/ (cpc = "raised" /\ mode = "loop")

\* what acknowledging the entry e stands on: a dead-letter record, the Alert
\* of an alert-worthy message, or a message that calls for no Alert
Settled(e) ==
    \/ e \in dlq
    \/ AlertWorthy(stream[e]) /\ alerts[stream[e].mid] >= 1
    \/ stream[e].kind = "valid" /\ ~AlertWorthy(stream[e])

\* what does hold: on a dead-letter path the entry is acknowledged only with
\* its dead-letter record written, and a failed XADD leaves it pending
DeadLetterRecordFirst ==
    [][(OnDeadLetterPath /\ AcksCurrent) => cur \in dlq']_vars

\* C31: on every dead-letter path the payload is appended to the dead-letter
\* stream before the entry is acknowledged, and an entry whose dead-letter
\* append fails is not acknowledged; so no entry is ever acknowledged without
\* its effect applied or a dead-letter record
C31_DeadLetterBeforeAck ==
    /\ [][(OnDeadLetterPath /\ AcksCurrent) => cur \in dlq']_vars
    /\ [](\A e \in acked : Settled(e))

\* C32: the consumer group is created at the oldest entry, so every entry
\* appended to ml:predictions, also one appended before the group existed,
\* is eventually delivered to a consumer of the group (stated for runs in
\* which no call fails, and up to the next death of the consumer process)
C32_GroupStartsAtOldest ==
    \A e \in EntryIds :
        (infra = "ok" /\ e <= Len(stream)) ~> (Delivered(e) \/ cpc = "down")

\* what does hold: an entry appended once the group exists is delivered
EntriesAfterGroupDelivered ==
    \A e \in EntryIds :
        (infra = "ok" /\ group_exists /\ e <= Len(stream) /\ e > last_delivered)
            ~> (Delivered(e) \/ cpc = "down")

(***************************************************************************)
(* Further properties of MLPredictionProcessor                             *)
(***************************************************************************)
\* the entry was read and its handling has ended without an acknowledgement
LeftPending(e) ==
    /\ e \in ml_pending
    /\ \A i \in 1..Len(messages) : messages[i] # e

\* C33: an entry whose alert insert fails, or whose handling raises, is left
\* unacknowledged and is processed again later: under fair scheduling it
\* does not stay pending for ever
C33_FailedAlertRetried ==
    \A e \in 1..MaxBatchEntries : LeftPending(e) ~> (e \notin ml_pending)

\* what the code does: an entry left pending is never handled again
LeftPendingStays ==
    [][\A e \in 1..MaxBatchEntries : LeftPending(e) => LeftPending(e)']_vars

\* C34: a single call of process_message for an attack prediction commits at
\* most one Alert row, whichever of the ORM path and the raw SQL path runs,
\* also when the ORM path raises after its commit
C34_OneAlertPerDelivery == cpc # "down" => created <= 1

\* what does hold: a call commits a second Alert only in its raw SQL path,
\* and none when no call to the store raises
SecondAlertIsFallback ==
    /\ [][(created' > created /\ created >= 1) => cpc = "pm_raw"]_vars
    /\ [](infra = "ok" => created <= 1)

(***************************************************************************)
(* Further properties of the flow buffer and the batch processor           *)
(***************************************************************************)
\* C35: in every reachable state, the one before any batch has completed
\* included, the published threat level is assess_threat_level of the
\* published last attack rate
C35_LevelMatchesRate ==
    current_threat_level = assess_threat_level(last_batch_attack_rate)

\* what does hold: the two agree once a batch has been scored
LevelMatchesRateOnceScored ==
    total_batches_processed > 0 =>
        current_threat_level = assess_threat_level(last_batch_attack_rate)

\* the flows of the batches whose calls are suspended in their broadcast
RECURSIVE InFlightFlows(_)
InFlightFlows(S) ==
    IF S = {} THEN 0
    ELSE LET b == CHOOSE x \in S : TRUE
         IN  b.flows_processed + InFlightFlows(S \ {b})

\* C36: every accepted flow is in exactly one place: the buffer, a batch
\* being processed, scored, evicted at capacity, or dropped at conversion.
\* total_flows_received is the number of flows in these together, and no
\* flow is scored in two completed batches.  (A batch is extracted and
\* scored, or put back, within one step, so between steps no flow is in an
\* extracted batch that is not yet scored; the batches still being
\* broadcast are scored ones.)
C36_FlowConservation ==
    /\ total_flows_received =
           Len(flow_buffer) + flows_scored + flows_evicted + flows_dropped
    /\ \A i, j \in 1..Len(flow_buffer) : i < j => flow_buffer[i].id < flow_buffer[j].id
    /\ \A i \in 1..Len(flow_buffer) : flow_buffer[i].id \in 1..total_flows_received
    /\ InFlightFlows(inflight) <= flows_scored

\* flows have been scored, a flow has been evicted and a flow waits
C36_ScoredEvictedAndWaiting ==
    /\ flows_scored >= 2
    /\ flows_evicted >= 1
    /\ flow_buffer # <<>>

\* the step commits an Alert row
CommitsAlert == created' > created

\* C37: process_message persists an Alert for a message only if this
\* delivery has set the dedup marker of its message id; when the marker
\* could not be set because the key-value store failed, the pass creates no
\* Alert.  (Checked in its weakest form: when an Alert is committed the
\* marker of its message id exists.)
C37_AlertBehindMarker ==
    [][CommitsAlert => stream[cur].mid \in processed]_vars

\* what does hold: an Alert is committed only by a delivery whose was_set is
\* true, and behind an existing marker when no call raises
AlertBehindWasSet ==
    [][CommitsAlert => (was_set /\ (infra = "ok" => stream[cur].mid \in processed))]_vars

(***************************************************************************)
(* The severity of a per-flow alert: process_message, from the prediction  *)
(* of the scorer.                                                          *)
(***************************************************************************)
\* the confidence tiers of process_message, in thousandths
CONF_CRITICAL == 800
CONF_HIGH == 600
CONF_MEDIUM == 400

\* the probabilities predict_proba can return for a row
Probabilities == 0..ProbScale

\* the severity process_message gives the alert of a prediction
AlertSeverity(prediction) ==
    LET conf == prediction.confidence
        attack_prob == prediction.attack_probability
        attack_confidence == ProbScale - attack_prob
    IN  IF attack_confidence >= CONF_CRITICAL /\ conf >= CONF_CRITICAL THEN "critical"
        ELSE IF attack_confidence >= CONF_HIGH /\ conf >= CONF_HIGH THEN "high"
        ELSE IF attack_confidence >= CONF_MEDIUM /\ conf >= CONF_MEDIUM THEN "medium"
        ELSE "low"

\* the scorer builds the prediction of a flow whose attack probability is p
ScoreFlow(p) ==
    /\ alert_prediction = NoPrediction
    /\ alert_severity = "none"
    /\ alert_prediction' = ScoredPrediction(p)
    /\ UNCHANGED alert_severity
    /\ UNCHANGED <<consumerVars, bufferVars, processorVars, broadcastVars, engineVars>>

\* process_message on the prediction: an attack gets an Alert of the computed
\* severity, anything else is acknowledged without one
AlertForPrediction ==
    /\ alert_prediction # NoPrediction
    /\ alert_severity = "none"
    /\ alert_severity' = IF alert_prediction.is_attack
                          THEN AlertSeverity(alert_prediction)
                          ELSE "skipped"
    /\ UNCHANGED alert_prediction
    /\ UNCHANGED <<consumerVars, bufferVars, processorVars, broadcastVars, engineVars>>

AlertInit ==
    /\ AlertIdle
    /\ EngineIdle
    /\ NoSubscribers
    /\ broadcaster = "broadcast_to_live_clients"
    /\ ConsumerDown
    /\ infra = "ok"
    /\ ApiStart
    /\ expected_feature_set = TRUE
    /\ ProcessorStopped

AlertNext == (\E p \in Probabilities : ScoreFlow(p)) \/ AlertForPrediction

AlertSpec == AlertInit /\ [][AlertNext]_vars

=============================================================================
